---- MODULE Spec2Model ----
(***************************************************************************)
(* Motion2Music: beat extraction (beats/helpers.py, beats/cues.py,         *)
(* beats/BeatExtraction.py) and tempo-aware refinement (ml/ml_helpers.py). *)
(*                                                                         *)
(* Numbers.  The program computes in float64.  The model computes in exact *)
(* rational arithmetic: a signal is a record [exc, n, d] standing for the  *)
(* array n[1]/d, ..., n[Len(n)]/d (d > 0), kept in lowest terms.  exc is   *)
(* "none" for a value and the name of the Python exception otherwise.      *)
(* Python index i is TLA+ index i+1 inside arrays; frame indices kept in   *)
(* event lists are the program's 0-based indices.                          *)
(*                                                                         *)
(* Motion.  positions is the (T,N,3) tensor of a rig with one joint (N=1)  *)
(* that moves vertically: frame t is (0, positions[t], 0).  For such a     *)
(* vector the Euclidean norm is the absolute value and the median over the *)
(* joints is the joint's own value.                                        *)
(***************************************************************************)
EXTENDS Integers, Sequences, FiniteSets, TLC

\* ------------------------------------------------------------------ bounds
MaxT == 7

\* ------------------------------------------------------------------ arithmetic
Abs(x) == IF x < 0 THEN -x ELSE x
Max2(a, b) == IF a >= b THEN a ELSE b
Min2(a, b) == IF a <= b THEN a ELSE b

RECURSIVE GCD(_, _)
GCD(a, b) == IF b = 0 THEN Abs(a) ELSE GCD(b, a % b)

RECURSIVE SeqGCD(_, _)
SeqGCD(s, g) == IF s = <<>> THEN g ELSE SeqGCD(Tail(s), GCD(g, Abs(Head(s))))

RECURSIVE SeqSum(_)
SeqSum(s) == IF s = <<>> THEN 0 ELSE Head(s) + SeqSum(Tail(s))

\* floor(p/q) and Python's round(p/q) (round half to even), for q > 0
FloorDiv(p, q) == p \div q
RoundHalfEven(p, q) ==
    LET f == p \div q
        r == 2 * (p - f * q)
    IN  IF r > q THEN f + 1
        ELSE IF r < q THEN f
        ELSE IF f % 2 = 0 THEN f ELSE f + 1

\* ------------------------------------------------------------------ signals
Sig(n, d) ==
    LET g == SeqGCD(n, d)
    IN  [exc |-> "none", n |-> [i \in 1..Len(n) |-> n[i] \div g], d |-> d \div g]
Raised(e) == [exc |-> e, n |-> <<>>, d |-> 1]
IsOk(x) == x.exc = "none"
SigLen(x) == Len(x.n)
Zeros(T) == [exc |-> "none", n |-> [i \in 1..T |-> 0], d |-> 1]
IntSig(s) == [exc |-> "none", n |-> s, d |-> 1]
\* the k-th smallest (k = 1..Len) entry of a sequence of integers
Sorted(s, k) ==
    CHOOSE v \in {s[i] : i \in 1..Len(s)} :
        /\ Cardinality({i \in 1..Len(s) : s[i] < v}) < k
        /\ Cardinality({i \in 1..Len(s) : s[i] <= v}) >= k
\* sorted(s), and the sorted sequence of the elements of a set of integers
SortInts(s) == [k \in 1..Len(s) |-> Sorted(s, k)]
SetToSortedSeq(S) ==
    [k \in 1..Cardinality(S) |-> CHOOSE v \in S : Cardinality({u \in S : u < v}) = k - 1]
SeqToSet(s) == {s[i] : i \in 1..Len(s)}
\* the first index of the window, whatever the values
FirstIn(s, lo, hi) == lo
\* first index of the maximum of s over lo..hi (np.argmax), lo <= hi
ArgMaxIn(s, lo, hi) ==
    CHOOSE i \in lo..hi :
        /\ \A j \in lo..hi : s[j] <= s[i]
        /\ \A j \in lo..(i - 1) : s[j] < s[i]

\* ------------------------------------------------------------------ helpers.py
\* np.percentile(x, q) with linear interpolation, for q a multiple of 5, as a
\* fraction over PctScale * x.d
PctScale == 20
PercentileNum(x, q) ==
    LET len == SigLen(x)
        pos == (q \div 5) * (len - 1)
        i   == pos \div PctScale
        r   == pos % PctScale
        a   == Sorted(x.n, i + 1)
        b   == IF i + 2 <= len THEN Sorted(x.n, i + 2) ELSE a
    IN  PctScale * a + r * (b - a)

EpsInv == 1000000000

_robust_norm(x) ==
    IF ~IsOk(x) THEN x
    ELSE IF SigLen(x) = 0 THEN x
    ELSE LET a == PercentileNum(x, 5)
             b == PercentileNum(x, 95)
         IN  IF b - a <= (PctScale * x.d - 1) \div EpsInv
             THEN Zeros(SigLen(x))
             ELSE Sig([i \in 1..SigLen(x) |->
                          Max2(0, Min2(b - a, PctScale * x.n[i] - a))], b - a)

_ma1d(x, k0) ==
    LET k   == Max2(1, k0)
        pad == k \div 2
        len == SigLen(x)
        xp(i) == x.n[Max2(1, Min2(len, i - pad))]
    IN  IF k = 1 THEN x
        ELSE IF len = 0 THEN Raised("ValueError")
        ELSE Sig([i \in 1..(len + 2 * pad - k + 1) |->
                     SeqSum([j \in 1..k |-> xp(i + j - 1)])], k * x.d)

\* _grad on a 1-D array, dt = 1/fps
_grad(x, fps) ==
    LET len == SigLen(x)
    IN  IF len = 1 THEN Zeros(1)
        ELSE Sig([i \in 1..len |->
                     IF i = 1 THEN 2 * fps * (x.n[2] - x.n[1])
                     ELSE IF i = len THEN 2 * fps * (x.n[len] - x.n[len - 1])
                     ELSE fps * (x.n[i + 1] - x.n[i - 1])], 2 * x.d)

\* _grad on an array of more dimensions: no branch for a single frame
_grad_nd(x, fps) ==
    IF ~IsOk(x) THEN x
    ELSE IF SigLen(x) < 2 THEN Raised("IndexError")
    ELSE _grad(x, fps)

\* extrema masks that compare an end sample with its one neighbour
LocalMinimaWithEnds(x) ==
    [i \in 1..SigLen(x) |->
        /\ (i = 1 \/ x.n[i] < x.n[i - 1])
        /\ (i = SigLen(x) \/ x.n[i] <= x.n[i + 1])]
\* a maximum that is non-strict on both sides
LocalMaximaNonStrict(x) ==
    [i \in 1..SigLen(x) |->
        /\ SigLen(x) >= 3
        /\ 1 < i
        /\ i < SigLen(x)
        /\ x.n[i] >= x.n[i - 1]
        /\ x.n[i] >= x.n[i + 1]]

_local_minima(x) ==
    [i \in 1..SigLen(x) |->
        /\ SigLen(x) >= 3
        /\ 1 < i
        /\ i < SigLen(x)
        /\ x.n[i] < x.n[i - 1]
        /\ x.n[i] <= x.n[i + 1]]

_local_maxima(x) ==
    [i \in 1..SigLen(x) |->
        /\ SigLen(x) >= 3
        /\ 1 < i
        /\ i < SigLen(x)
        /\ x.n[i] > x.n[i - 1]
        /\ x.n[i] >= x.n[i + 1]]

\* Optional[int]: None is kept as an integer no index can take
None == -1
_valid_idx(idx, N) == idx # None /\ 0 <= idx /\ idx < N

\* a rational number num/den (den > 0) as a pair
Q(num, den) == <<num, den>>
\* a/b <= c/d for b, d > 0, by comparing integer parts and then the
\* reciprocals of the remainders (no product is formed)
RECURSIVE FracLe(_, _, _, _)
FracLe(a, b, c, d) ==
    IF a \div b # c \div d THEN a \div b < c \div d
    ELSE IF a % b = 0 THEN TRUE
    ELSE IF c % d = 0 THEN FALSE
    ELSE FracLe(d, c % d, b, a % b)
QLe(a, b) == FracLe(a[1], a[2], b[1], b[2])
QLt(a, b) == ~QLe(b, a)
QMax(a, b) == IF QLe(b, a) THEN a ELSE b
QMin(a, b) == IF QLe(a, b) THEN a ELSE b
\* entry i (1-based) of a signal, as a rational
At(x, i) == Q(x.n[i], x.d)

\* The orders np.argsort(score[idx])[::-1] can produce: idx by descending
\* score; the order among equal scores is the sort's choice.
DescendingOrders(x, idx) ==
    {o \in [1..Cardinality(idx) -> idx] :
        /\ \A a, b \in 1..Cardinality(idx) : a # b => o[a] # o[b]
        /\ \A a, b \in 1..Cardinality(idx) : a < b => x.n[o[a] + 1] >= x.n[o[b] + 1]}

\* a window that divides by fps where the program multiplies
NmsWinDivided(fps, min_sep_s) == Max2(1, RoundHalfEven(min_sep_s[1], min_sep_s[2] * fps))
NmsWin(fps, min_sep_s) == Max2(1, RoundHalfEven(min_sep_s[1] * fps, min_sep_s[2]))

\* the greedy loop of _nms_basic over order[j..], 0-based frames
RECURSIVE NmsLoop(_, _, _, _, _, _)
NmsLoop(order, j, win, len, taken, picked) ==
    IF j > Len(order) THEN SortInts(picked)
    ELSE LET i == order[j]
         IN  IF i \in taken
             THEN NmsLoop(order, j + 1, win, len, taken, picked)
             ELSE NmsLoop(order, j + 1, win, len,
                          taken \cup (Max2(0, i - win)..(Min2(len, i + win + 1) - 1)),
                          Append(picked, i))

\* _nms_basic: the set of results (sorted sequences of 0-based frames), one per
\* admissible sort order
_nms_basic(score, fps, min_sep_s) ==
    LET idx == {i - 1 : i \in {j \in 1..SigLen(score) : _local_maxima(score)[j]}}
    IN  IF idx = {} THEN {<<>>}
        ELSE {NmsLoop(o, 1, NmsWin(fps, min_sep_s), SigLen(score), {}, <<>>) :
                 o \in DescendingOrders(score, idx)}

\* a mask with one threshold: on exactly at the samples reaching thr_hi
HystOnSingle(score, thr_hi, thr_lo, i) == i > 0 /\ QLe(thr_hi, At(score, i))
\* the state `on` of _hysteresis_mask after sample i (1-based; 0: before the scan)
RECURSIVE HystOn(_, _, _, _)
HystOn(score, thr_hi, thr_lo, i) ==
    IF i = 0 THEN FALSE
    ELSE LET on == HystOn(score, thr_hi, thr_lo, i - 1)
             s  == At(score, i)
         IN  IF ~on /\ QLe(thr_hi, s) THEN TRUE
             ELSE IF on /\ QLt(s, thr_lo) THEN FALSE
             ELSE on

_hysteresis_mask(score, thr_hi, thr_lo) ==
    [i \in 1..SigLen(score) |-> HystOn(score, thr_hi, thr_lo, i)]

\* _prominence_and_area(x, i, radius), i 0-based: <<prom, area>> as rationals
_prominence_and_area(x, i, radius) ==
    LET len  == SigLen(x)
        lo   == Max2(0, i - radius)
        hi   == Min2(len, i + radius + 1)
        peak == x.n[i + 1]
        wmin == Sorted([j \in 1..(hi - lo) |-> x.n[lo + j]], 1)
        el   == IF lo > 0 THEN x.n[lo + 1] ELSE peak
        er   == IF hi < len THEN x.n[hi] ELSE peak
        base == Max2(wmin, Min2(el, er))
        clip(j) == Max2(0, x.n[lo + j])
    IN  << Q(peak - base, x.d),
           Q(SeqSum([j \in 1..(hi - lo - 1) |-> clip(j) + clip(j + 1)]), 2 * x.d) >>

MinAutocorrLen == 8

\* Products of two signal entries do not fit the checker's integers: a wide
\* integer is the tuple <<w1, .., w5>> standing for w1 + w2*2^11 + .. + w5*2^44.
Limbs(a) == <<a % 2048, (a \div 2048) % 2048, a \div 4194304>>
WideMul(a, b) ==
    LET x == Limbs(a)
        y == Limbs(b)
    IN  [k \in 1..5 |->
            SeqSum([i \in 1..3 |-> IF k + 1 - i \in 1..3 THEN x[i] * y[k + 1 - i] ELSE 0])]
RECURSIVE WideSum(_)
WideSum(ws) ==
    IF ws = <<>> THEN <<0, 0, 0, 0, 0>>
    ELSE LET r == WideSum(Tail(ws)) IN [k \in 1..5 |-> Head(ws)[k] + r[k]]
\* the sign (-1, 0, 1) of v - u
WideCmp(u, v) ==
    LET n1 == v[1] - u[1]
        n2 == v[2] - u[2] + n1 \div 2048
        n3 == v[3] - u[3] + n2 \div 2048
        n4 == v[4] - u[4] + n3 \div 2048
        n5 == v[5] - u[5] + n4 \div 2048
    IN  IF n5 > 0 THEN 1
        ELSE IF n5 < 0 THEN -1
        ELSE IF (n1 % 2048) + (n2 % 2048) + (n3 % 2048) + (n4 % 2048) > 0 THEN 1
        ELSE 0

\* _estimate_period_from_autocorr: the lag k in frames (the program returns
\* k / fps), 0 for None.  Lags are compared on len*x - sum(x), a positive
\* multiple of the normalised signal.
_estimate_period_from_autocorr(x) ==
    LET len == SigLen(x)
        tot == SeqSum(x.n)
        z   == Sig([t \in 1..len |-> len * x.n[t] - tot], 1).n
        ac  == [k \in 0..(len - 1) |->
                   IF k < 2 THEN WideSum(<<>>)
                   ELSE WideSum([t \in 1..(len - k) |-> WideMul(z[t], z[t + k])])]
        k   == CHOOSE c \in 0..(len - 1) :
                   /\ \A j \in 0..(len - 1) : WideCmp(ac[j], ac[c]) >= 0
                   /\ \A j \in 0..(c - 1) : WideCmp(ac[j], ac[c]) > 0
    IN  IF len < MinAutocorrLen THEN 0 ELSE k

\* ------------------------------------------------------------------ cues.py
AbsSig(x) == IF ~IsOk(x) THEN x ELSE [x EXCEPT !.n = [i \in 1..SigLen(x) |-> Abs(x.n[i])]]
\* mask.astype(float) * clip(sign * x, 0, None)
MaskedClip(mask, x, sign) ==
    [x EXCEPT !.n = [i \in 1..SigLen(x) |-> IF mask[i] THEN Max2(0, sign * x.n[i]) ELSE 0]]

\* _ma3 on the trajectory (0, y, 0): the assignment out[:, c] = _ma1d(v[:, c], k)
\* needs the smoothed column to have T entries
_ma3(v, k) ==
    IF SigLen(_ma1d(v, k)) # SigLen(v) THEN Raised("ValueError") ELSE _ma1d(v, k)

_body_speed_trace(positions_sel, fps, smooth_win) ==
    AbsSig(_grad_nd(_ma3(positions_sel, smooth_win), fps))

_cue_deceleration(speed, fps) ==
    IF ~IsOk(speed) THEN speed
    ELSE _robust_norm(MaskedClip(_local_minima(speed), _grad(speed, fps), -1))

_cue_pelvis_drop(pos, pelvis_idx, fps, smooth_win) ==
    IF ~_valid_idx(pelvis_idx, 1) THEN Zeros(SigLen(pos))
    ELSE LET pelvis == _ma3(pos, smooth_win)
         IN  IF ~IsOk(pelvis) THEN pelvis
             ELSE _robust_norm(MaskedClip(_local_minima(pelvis),
                                          _grad(_grad(pelvis, fps), fps), 1))

_safe_idx(idx, J) == IF idx # None /\ 0 <= idx /\ idx < J THEN idx ELSE None

LegFloorInv == 1000000

\* _leg_length: every pelvis-foot distance of a one-joint rig is 0, so the
\* median is 0 and the floor 1e-6 is returned
_leg_length(pos, pelvis_idx, lfoot_idx, rfoot_idx) ==
    IF \/ _safe_idx(pelvis_idx, 1) = None
       \/ (_safe_idx(lfoot_idx, 1) = None /\ _safe_idx(rfoot_idx, 1) = None)
    THEN Q(1, 1)
    ELSE Q(1, LegFloorInv)

GroundPct == 5

_cue_foot_contact(pos, foot_idx, fps, smooth_win, leg_scale) ==
    LET T == SigLen(pos) IN
    IF ~_valid_idx(foot_idx, 1) \/ T = 0 THEN Zeros(T)
    ELSE LET foot  == _ma3(pos, smooth_win)
             g     == PercentileNum(foot, GroundPct)
             leg   == QMax(leg_scale, Q(1, LegFloorInv))
             above == Sig([i \in 1..T |-> Max2(0, PctScale * foot.n[i] - g)], PctScale * foot.d)
             y_rel == Sig([i \in 1..T |-> above.n[i] * leg[2]], above.d * leg[1])
             vxy   == _grad_nd(Zeros(T), fps)
             sp    == AbsSig(vxy)
             vy_abs == AbsSig(_grad(y_rel, fps))
             h_norm  == _robust_norm(y_rel)
             s_norm  == _robust_norm(sp)
             vy_norm == _robust_norm(vy_abs)
             mins  == _local_minima(y_rel)
             raw   == Sig([i \in 1..T |->
                              (h_norm.d - h_norm.n[i]) * (s_norm.d - s_norm.n[i])
                              * vy_norm.n[i] * (IF mins[i] THEN 13 ELSE 10)],
                          h_norm.d * s_norm.d * vy_norm.d * 10)
         IN  IF ~IsOk(foot) THEN foot
             ELSE IF ~IsOk(vxy) THEN vxy
             ELSE _robust_norm(raw)

_cue_global_accel(positions_sel, fps, smooth_win) ==
    _robust_norm(AbsSig(_grad_nd(_grad_nd(_ma3(positions_sel, smooth_win), fps), fps)))

_cue_reversal(positions_sel, fps, smooth_win) ==
    LET m == AbsSig(_grad_nd(_ma3(positions_sel, smooth_win), fps))
    IN  IF ~IsOk(m) THEN m
        ELSE _robust_norm(MaskedClip(_local_minima(m), _grad(m, fps), -1))

\* ------------------------------------------------------------------ ml_helpers.py
\* sorted, repeats kept
AsIntSorted(x) == SortInts(x)
_as_int_sorted_unique(x) == SetToSortedSeq(SeqToSet(x))

\* np.median of a non-empty sequence of integers, times 2
Median2(s) ==
    LET len == Len(s)
    IN  IF len % 2 = 1 THEN 2 * Sorted(s, (len + 1) \div 2)
        ELSE Sorted(s, len \div 2) + Sorted(s, len \div 2 + 1)

\* np.polyfit(k, ev, 1) on two or more points with distinct k: the slope is
\* bnum/den, and the fitted value at beat number j is PolyPred(fit, j)/fit.D
PolyFit(ks, evs) ==
    LET len == Len(ks)
        sk  == SeqSum(ks)
        se  == SeqSum(evs)
        skk == SeqSum([i \in 1..len |-> ks[i] * ks[i]])
        ske == SeqSum([i \in 1..len |-> ks[i] * evs[i]])
        den == len * skk - sk * sk
        bnum == len * ske - sk * se
    IN  [bnum |-> bnum, den |-> den, c0 |-> se * den - bnum * sk, len |-> len,
         D |-> len * den]
PolyPred(fit, j) == fit.c0 + fit.len * fit.bnum * j
SlopeUsable(fit) == 2 * fit.bnum > fit.den

\* the snapping loop over the predicted frames pred[1..]/D
RECURSIVE SnapLoop(_, _, _, _, _, _)
SnapLoop(pred, D, j, score, drift, snapped) ==
    IF j > Len(pred) THEN snapped
    ELSE LET T  == SigLen(score)
             c  == RoundHalfEven(pred[j], D)
             lo == Max2(0, c - drift)
             hi == Min2(T, c + drift + 1)
         IN  IF hi <= lo THEN SnapLoop(pred, D, j + 1, score, drift, snapped)
             ELSE SnapLoop(pred, D, j + 1, score, drift,
                           Append(snapped, ArgMaxIn(score.n, lo + 1, hi) - 1))

\* refine_events_with_tempo: [exc, ev, path, c]; ev is the returned array, path
\* names the return statement taken and c holds the values the loop variable c
\* took, one per beat number (empty when the loop did not run).  nanfit is what np.polyfit does on fewer
\* than two points (reachable only with min_events < 2): on an empty vector it
\* raises; on one point its scaled design matrix holds NaN and LAPACK either
\* fails (LinAlgError) or hands back a NaN slope.
refine_events_with_tempo(events_idx, score, max_drift_frames, min_events, nanfit) ==
    LET T    == SigLen(score)
        ev0  == _as_int_sorted_unique(events_idx)
        ev   == SelectSeq(ev0, LAMBDA e : e >= 0 /\ e < T)
        len  == Len(ev)
        k    == [i \in 1..len |-> i - 1]
        fit1 == PolyFit(k, ev)
        R    == [i \in 1..len |-> ev[i] * fit1.D - PolyPred(fit1, k[i])]
        med2 == Median2(R)
        U    == [i \in 1..len |-> Abs(2 * R[i] - med2)]
        mad4 == Median2(U)
        good == [i \in 1..len |->
                    8 * Abs(R[i]) - 7 * mad4 <= (28 * fit1.D) \div EpsInv]
        ngood == Cardinality({i \in 1..len : good[i]})
        refit == ngood >= min_events /\ ngood < len
        gi   == SetToSortedSeq({i \in 1..len : good[i]})
        fit2 == PolyFit([i \in 1..ngood |-> k[gi[i]]], [i \in 1..ngood |-> ev[gi[i]]])
        fit  == IF refit THEN fit2 ELSE fit1
        pred == [i \in 1..len |-> PolyPred(fit, k[i])]
        drift == Max2(0, max_drift_frames)
        Ret(path, e) == [exc |-> "none", ev |-> e, path |-> path, c |-> <<>>]
        Exc(e) == [exc |-> e, ev |-> <<>>, path |-> "raise", c |-> <<>>]
    IN  IF Len(ev0) < min_events \/ Len(ev0) < 2 \/ T = 0 THEN Ret("few", ev0)
        ELSE IF len < min_events THEN Ret("few_in_range", ev)
        ELSE IF len = 0 THEN Exc("TypeError")
        ELSE IF len = 1 THEN
            IF nanfit = "raise" THEN Exc("LinAlgError") ELSE Ret("slope", ev)
        ELSE IF ~SlopeUsable(fit1) THEN Ret("slope", ev)
        ELSE IF refit /\ ngood = 0 THEN Exc("TypeError")
        ELSE IF refit /\ ngood = 1 THEN
            IF nanfit = "raise" THEN Exc("LinAlgError") ELSE Ret("slope", ev)
        ELSE IF refit /\ ~SlopeUsable(fit2) THEN Ret("slope", ev)
        ELSE [exc |-> "none", path |-> "snapped",
              ev |-> _as_int_sorted_unique(SnapLoop(pred, fit.D, 1, score, drift, <<>>)),
              c |-> [i \in 1..len |-> RoundHalfEven(pred[i], fit.D)]]

\* ------------------------------------------------------------------ BeatExtraction.py
\* BeatParamsV1 and the fields BeatParamsV2 adds; times in seconds, weights
\* and thresholds as fractions
BeatParamsV1 ==
    [smooth_win |-> 5, score_threshold |-> Q(6, 10), nms_separation_s |-> Q(12, 100),
     w_decel |-> Q(4, 10), w_pelvis |-> Q(3, 10), w_foot |-> Q(3, 10),
     adaptive_nms |-> TRUE, hysteresis_low_fac |-> Q(8, 10),
     phase_snap_radius |-> 3, snap_recheck_radius |-> 2]
BeatParamsV2 ==
    [smooth_win |-> 5, score_threshold |-> Q(6, 10), nms_separation_s |-> Q(12, 100),
     w_decel |-> Q(4, 10), w_pelvis |-> Q(3, 10), w_foot |-> Q(3, 10),
     adaptive_nms |-> TRUE, hysteresis_low_fac |-> Q(8, 10),
     phase_snap_radius |-> 3, snap_recheck_radius |-> 2,
     w_accel |-> Q(2, 10), w_reversal |-> Q(2, 10), prom_window_s |-> Q(12, 100),
     min_prominence |-> Q(1, 10), min_area |-> Q(1, 10)]

\* the degenerate test without its fps half
DegenerateNoFrames(T, fps) == T = 0
\* the empty result of a degenerate call
Degenerate(T, fps) == T = 0 \/ fps <= 0
EmptyResult(version) ==
    IF version = 1
    THEN [beat_score |-> Zeros(0), candidate_mask |-> <<>>, events_idx |-> <<>>,
          C_decel |-> Zeros(0), C_pelvis |-> Zeros(0), C_foot |-> Zeros(0)]
    ELSE [beat_score |-> Zeros(0), candidate_mask |-> <<>>, events_idx |-> <<>>,
          C_decel |-> Zeros(0), C_pelvis |-> Zeros(0), C_foot |-> Zeros(0),
          C_accel |-> Zeros(0), C_reversal |-> Zeros(0)]

\* np.maximum(a, b) of two signals
Maximum(a, b) ==
    LET L == (a.d \div GCD(a.d, b.d)) * b.d
    IN  Sig([i \in 1..SigLen(a) |-> Max2(a.n[i] * (L \div a.d), b.n[i] * (L \div b.d))], L)

\* the cue arrays of one call, or the first exception raised while computing
\* them (the extractors are called in this order)
CueArrays(speed, C_decel, C_pelvis, C_lfoot, C_rfoot, C_accel, C_rev) ==
    IF ~IsOk(speed) THEN [exc |-> speed.exc]
    ELSE IF ~IsOk(C_pelvis) THEN [exc |-> C_pelvis.exc]
    ELSE IF ~IsOk(C_lfoot) THEN [exc |-> C_lfoot.exc]
    ELSE IF ~IsOk(C_rfoot) THEN [exc |-> C_rfoot.exc]
    ELSE IF ~IsOk(C_accel) THEN [exc |-> C_accel.exc]
    ELSE IF ~IsOk(C_rev) THEN [exc |-> C_rev.exc]
    ELSE [exc |-> "none", C_decel |-> C_decel, C_pelvis |-> C_pelvis,
          C_lfoot |-> C_lfoot, C_rfoot |-> C_rfoot,
          C_foot |-> Maximum(C_lfoot, C_rfoot),
          C_accel |-> C_accel, C_reversal |-> C_rev]

\* the cue block of extract_beats_v1 / extract_beats_v2
CueBlock(pos, fps, version, p, pelvis_idx, left_foot_idx, right_foot_idx) ==
    CueArrays(_body_speed_trace(pos, fps, p.smooth_win),
              _cue_deceleration(_body_speed_trace(pos, fps, p.smooth_win), fps),
              _cue_pelvis_drop(pos, pelvis_idx, fps, p.smooth_win),
              _cue_foot_contact(pos, left_foot_idx, fps, p.smooth_win,
                                _leg_length(pos, pelvis_idx, left_foot_idx, right_foot_idx)),
              _cue_foot_contact(pos, right_foot_idx, fps, p.smooth_win,
                                _leg_length(pos, pelvis_idx, left_foot_idx, right_foot_idx)),
              IF version = 2 THEN _cue_global_accel(pos, fps, p.smooth_win) ELSE Zeros(0),
              IF version = 2 THEN _cue_reversal(pos, fps, p.smooth_win) ELSE Zeros(0))

RECURSIVE LCMSeq(_)
LCMSeq(s) ==
    IF s = <<>> THEN 1
    ELSE LET r == LCMSeq(Tail(s)) IN (Head(s) \div GCD(Head(s), r)) * r

\* the weighted sum of the cues
WeightedSum(version, p, C) ==
    LET cs == IF version = 1 THEN <<C.C_decel, C.C_pelvis, C.C_foot>>
              ELSE <<C.C_decel, C.C_pelvis, C.C_foot, C.C_accel, C.C_reversal>>
        ws == IF version = 1 THEN <<p.w_decel, p.w_pelvis, p.w_foot>>
              ELSE <<p.w_decel, p.w_pelvis, p.w_foot, p.w_accel, p.w_reversal>>
        L  == LCMSeq([j \in 1..Len(cs) |-> cs[j].d])
        W  == LCMSeq([j \in 1..Len(ws) |-> ws[j][2]])
        T  == SigLen(C.C_decel)
    IN  Sig([i \in 1..T |->
                SeqSum([j \in 1..Len(cs) |->
                           ws[j][1] * (W \div ws[j][2]) * cs[j].n[i] * (L \div cs[j].d)])],
            W * L)
\* a fusion that leaves out the last normalisation
FuseUnnormalised(version, p, C) == WeightedSum(version, p, C)
\* the fused score: the weighted sum, normalised
Fuse(version, p, C) == _robust_norm(WeightedSum(version, p, C))

QMul(a, b) ==
    LET g == GCD(a[1] * b[1], a[2] * b[2])
    IN  Q((a[1] * b[1]) \div g, (a[2] * b[2]) \div g)
ThrHi(p) == p.score_threshold
ThrLo(p) == QMul(p.score_threshold, p.hysteresis_low_fac)

\* the NMS separation in seconds: the configured one, or half the estimated
\* period clamped into [0.08, 0.25]
NmsSep(p, score, fps) ==
    LET k == _estimate_period_from_autocorr(score)
    IN  IF p.adaptive_nms /\ k > 0
        THEN QMax(Q(8, 100), QMin(Q(25, 100), Q(k, 2 * fps)))
        ELSE p.nms_separation_s

\* v2: local maxima inside the hysteresis mask that pass prominence and area
Candidates(p, score, mask, fps) ==
    LET prom_win == Max2(1, RoundHalfEven(p.prom_window_s[1] * fps, p.prom_window_s[2]))
    IN  {i \in 0..(SigLen(score) - 1) :
            /\ _local_maxima(score)[i + 1]
            /\ mask[i + 1]
            /\ QLe(p.min_prominence, _prominence_and_area(score, i, prom_win)[1])
            /\ QLe(p.min_area, _prominence_and_area(score, i, prom_win)[2])}

\* the events of the NMS stage: the set of possible results
NmsStage(version, p, score, mask, fps) ==
    IF version = 1 THEN _nms_basic(score, fps, NmsSep(p, score, fps))
    ELSE LET cand == Candidates(p, score, mask, fps)
             tmp  == [score EXCEPT !.n = [i \in 1..SigLen(score) |->
                                             IF (i - 1) \in cand THEN score.n[i] ELSE 0]]
         IN  IF cand = {} THEN {<<>>}
             ELSE _nms_basic(tmp, fps, NmsSep(p, score, fps))

SnapApplies(p, left_foot_idx, right_foot_idx, events) ==
    /\ p.phase_snap_radius > 0
    /\ (_valid_idx(left_foot_idx, 1) \/ _valid_idx(right_foot_idx, 1))
    /\ Len(events) > 0

\* the snapped frame of one event ei
SnapOne(pos, fps, p, C, left_foot_idx, right_foot_idx, ei) ==
    LET T    == SigLen(pos)
        use_left == QLe(At(C.C_rfoot, ei + 1), At(C.C_lfoot, ei + 1))
        fidx == IF use_left THEN left_foot_idx ELSE right_foot_idx
        jy   == AbsSig(_grad(_grad(_grad(pos, fps), fps), fps))
        lo   == Max2(0, ei - p.phase_snap_radius)
        hi   == Min2(T, ei + p.phase_snap_radius + 1)
        cand == {c \in lo..(hi - 1) : _local_minima(pos)[c + 1]}
    IN  IF ~_valid_idx(fidx, 1) THEN ei
        ELSE IF cand # {}
        THEN CHOOSE c \in cand :
                 /\ \A o \in cand : Abs(c - ei) <= Abs(o - ei)
                 /\ \A o \in cand : o < c => Abs(c - ei) < Abs(o - ei)
        ELSE ArgMaxIn(jy.n, lo + 1, hi) - 1

\* the snapped frames in event order, repeats kept
PhaseSnapEventsAsSnapped(pos, fps, p, C, left_foot_idx, right_foot_idx, events) ==
    [j \in 1..Len(events) |->
        SnapOne(pos, fps, p, C, left_foot_idx, right_foot_idx, events[j])]
PhaseSnapEvents(pos, fps, p, C, left_foot_idx, right_foot_idx, events) ==
    SetToSortedSeq({SnapOne(pos, fps, p, C, left_foot_idx, right_foot_idx, events[j]) :
                       j \in 1..Len(events)})

\* the hard recheck of v2
PassesRecheck(score, thr_hi, r0, ei) ==
    LET r  == Max2(0, r0)
        lo == Max2(0, ei - r)
        hi == Min2(SigLen(score), ei + r + 1)
    IN  \E t \in lo..(hi - 1) : QLe(thr_hi, At(score, t + 1))
\* a recheck that drops nothing
HardRecheckKeepsAll(score, p, events) == events
HardRecheck(score, p, events) ==
    SelectSeq(events, LAMBDA ei : PassesRecheck(score, ThrHi(p), p.snap_recheck_radius, ei))

\* ------------------------------------------------------------------ state
\* One call of extract_beats_v1 / extract_beats_v2.
\*   arg         the call's arguments
\*   pc          where the call stands
\*   C           the cue arrays, once computed
\*   score, mask_hyst, events_idx   the locals of the same names
\*   ret         the returned dictionary
\*   loader      the BVHLoader object of a call of loadbvh (io/loadbvh.py)
\*   local       the locals of the BVHLoader method being run
VARIABLES arg, pc, C, score, mask_hyst, events_idx, ret, loader, local
vars == <<arg, pc, C, score, mask_hyst, events_idx, ret, loader, local>>

NoLoader == [exc |-> "unset"]
NoLocal == [exc |-> "unset"]

YLevels == {0, 1}
FpsValues == {0, 8}
FootChoices == {<<None, None>>, <<0, None>>, <<None, 0>>, <<0, 0>>}
ParamChoices(version) ==
    LET base == IF version = 1 THEN BeatParamsV1 ELSE BeatParamsV2
        p1   == [base EXCEPT !.smooth_win = 1]
    IN  {p1, [p1 EXCEPT !.phase_snap_radius = 0],
         [p1 EXCEPT !.hysteresis_low_fac = Q(1, 10)]}

Trajectories == UNION {[1..t -> YLevels] : t \in 0..MaxT}

NoCues == [exc |-> "unset"]
NoRet == [exc |-> "unset"]

Init ==
    /\ \E y \in Trajectories, f \in FpsValues, v \in {1, 2}, pel \in {None, 0},
          feet \in FootChoices :
          \E p \in ParamChoices(v) :
             arg = [positions |-> IntSig(y), fps |-> f, version |-> v, params |-> p,
                    pelvis_idx |-> pel, left_foot_idx |-> feet[1],
                    right_foot_idx |-> feet[2]]
    /\ pc = "call"
    /\ C = NoCues
    /\ score = Zeros(0)
    /\ mask_hyst = <<>>
    /\ events_idx = <<>>
    /\ ret = NoRet
    /\ loader = NoLoader
    /\ local = NoLocal

T == SigLen(arg.positions)

\* T = 0 or fps <= 0: the empty result
ReturnEmpty ==
    /\ pc = "call"
    /\ Degenerate(T, arg.fps)
    /\ ret' = [exc |-> "none", val |-> EmptyResult(arg.version)]
    /\ pc' = "returned"
    /\ UNCHANGED <<arg, C, score, mask_hyst, events_idx, loader, local>>

\* the cue extractors; an exception leaves the call
CuesComputed(c) ==
    /\ C' = c
    /\ pc' = IF c.exc = "none" THEN "cues" ELSE "raised"
    /\ ret' = IF c.exc = "none" THEN ret ELSE [exc |-> c.exc]
ComputeCues ==
    /\ pc = "call"
    /\ ~Degenerate(T, arg.fps)
    /\ CuesComputed(CueBlock(arg.positions, arg.fps, arg.version, arg.params,
                             arg.pelvis_idx, arg.left_foot_idx, arg.right_foot_idx))
    /\ UNCHANGED <<arg, score, mask_hyst, events_idx, loader, local>>

\* fusion, normalisation and the hysteresis mask
FuseScore ==
    /\ pc = "cues"
    /\ LET sc == Fuse(arg.version, arg.params, C)
       IN  /\ score' = sc
           /\ mask_hyst' = _hysteresis_mask(sc, ThrHi(arg.params), ThrLo(arg.params))
    /\ pc' = "fused"
    /\ UNCHANGED <<arg, C, events_idx, ret, loader, local>>

\* (v2: prominence/area gating,) adaptive NMS
Nms ==
    /\ pc = "fused"
    /\ events_idx' \in NmsStage(arg.version, arg.params, score, mask_hyst, arg.fps)
    /\ pc' = "nms"
    /\ UNCHANGED <<arg, C, score, mask_hyst, ret, loader, local>>

\* phase snap, when its condition holds
PhaseSnap ==
    /\ pc = "nms"
    /\ SnapApplies(arg.params, arg.left_foot_idx, arg.right_foot_idx, events_idx)
    /\ events_idx' = PhaseSnapEvents(arg.positions, arg.fps, arg.params, C,
                                     arg.left_foot_idx, arg.right_foot_idx, events_idx)
    /\ pc' = IF arg.version = 2 THEN "snapped" ELSE "final"
    /\ UNCHANGED <<arg, C, score, mask_hyst, ret, loader, local>>

\* the whole snap block is skipped
SkipSnap ==
    /\ pc = "nms"
    /\ ~SnapApplies(arg.params, arg.left_foot_idx, arg.right_foot_idx, events_idx)
    /\ pc' = "final"
    /\ UNCHANGED <<arg, C, score, mask_hyst, events_idx, ret, loader, local>>

\* v2, inside the snap block: hard recheck
Recheck ==
    /\ pc = "snapped"
    /\ events_idx' = IF Len(events_idx) > 0 THEN HardRecheck(score, arg.params, events_idx)
                     ELSE events_idx
    /\ pc' = "rechecked"
    /\ UNCHANGED <<arg, C, score, mask_hyst, ret, loader, local>>

RefineDrift == 3
RefineMinEvents == 3

\* v2, inside the snap block: tempo-aware refinement
TempoRefine ==
    /\ pc = "rechecked"
    /\ events_idx' = refine_events_with_tempo(events_idx, score, RefineDrift,
                                              RefineMinEvents, "raise").ev
    /\ pc' = "final"
    /\ UNCHANGED <<arg, C, score, mask_hyst, ret, loader, local>>

Result(version) ==
    IF version = 1
    THEN [beat_score |-> score, candidate_mask |-> mask_hyst, events_idx |-> events_idx,
          C_decel |-> C.C_decel, C_pelvis |-> C.C_pelvis, C_foot |-> C.C_foot]
    ELSE [beat_score |-> score, candidate_mask |-> mask_hyst, events_idx |-> events_idx,
          C_decel |-> C.C_decel, C_pelvis |-> C.C_pelvis, C_foot |-> C.C_foot,
          C_accel |-> C.C_accel, C_reversal |-> C.C_reversal]

Return ==
    /\ pc = "final"
    /\ ret' = [exc |-> "none", val |-> Result(arg.version)]
    /\ pc' = "returned"
    /\ UNCHANGED <<arg, C, score, mask_hyst, events_idx, loader, local>>

Next ==
    \/ ReturnEmpty
    \/ ComputeCues
    \/ FuseScore
    \/ Nms
    \/ PhaseSnap
    \/ SkipSnap
    \/ Recheck
    \/ TempoRefine
    \/ Return

Spec == Init /\ [][Next]_vars

\* ------------------------------------------------------------------ single calls
\* One call of one helper: arg holds the function's name and arguments, ret
\* its result.  The other variables are not used.
MaxLen == 5
ScoreLevels == {0, 1, 2}
Scores == UNION {[1..t -> ScoreLevels] : t \in 0..MaxLen}

NmsCalls ==
    {[fn |-> "_nms_basic", score |-> IntSig(s), fps |-> f, min_sep_s |-> m] :
        s \in Scores, f \in {1, 2}, m \in {Q(0, 1), Q(1, 1), Q(3, 2)}}
HystCalls ==
    {[fn |-> "_hysteresis_mask", score |-> IntSig(s), thr_hi |-> Q(h, 1), thr_lo |-> Q(l, 1)] :
        s \in Scores, h \in ScoreLevels, l \in ScoreLevels}

MaxCueT == 4
CueCalls ==
    {[fn |-> "cue", positions |-> IntSig(y), fps |-> f, smooth_win |-> BeatParamsV1.smooth_win] :
        y \in UNION {[1..t -> ScoreLevels] : t \in 1..MaxCueT}, f \in {8, 30}}

InitHelpers ==
    /\ arg \in NmsCalls \cup HystCalls \cup CueCalls
    /\ pc = "call"
    /\ C = NoCues
    /\ score = Zeros(0)
    /\ mask_hyst = <<>>
    /\ events_idx = <<>>
    /\ ret = NoRet
    /\ loader = NoLoader
    /\ local = NoLocal

Returns(name, val) ==
    /\ ret' = val
    /\ pc' = name
    /\ UNCHANGED <<arg, C, score, mask_hyst, events_idx, loader, local>>

CallNms ==
    /\ pc = "call" /\ arg.fn = "_nms_basic"
    /\ \E r \in _nms_basic(arg.score, arg.fps, arg.min_sep_s) :
          Returns("_nms_basic", [exc |-> "none", val |-> r])

CallHysteresis ==
    /\ pc = "call" /\ arg.fn = "_hysteresis_mask"
    /\ Returns("_hysteresis_mask",
               [exc |-> "none", val |-> _hysteresis_mask(arg.score, arg.thr_hi, arg.thr_lo)])

\* the five cue extractors, each called with joint 0 as pelvis / foot
CallDeceleration ==
    /\ pc = "call" /\ arg.fn = "cue"
    /\ Returns("_cue_deceleration",
               _cue_deceleration(_body_speed_trace(arg.positions, arg.fps, arg.smooth_win),
                                 arg.fps))
CallPelvisDrop ==
    /\ pc = "call" /\ arg.fn = "cue"
    /\ Returns("_cue_pelvis_drop",
               _cue_pelvis_drop(arg.positions, 0, arg.fps, arg.smooth_win))
CallFootContact ==
    /\ pc = "call" /\ arg.fn = "cue"
    /\ Returns("_cue_foot_contact",
               _cue_foot_contact(arg.positions, 0, arg.fps, arg.smooth_win, Q(1, 1)))
CallGlobalAccel ==
    /\ pc = "call" /\ arg.fn = "cue"
    /\ Returns("_cue_global_accel",
               _cue_global_accel(arg.positions, arg.fps, arg.smooth_win))
CallReversal ==
    /\ pc = "call" /\ arg.fn = "cue"
    /\ Returns("_cue_reversal", _cue_reversal(arg.positions, arg.fps, arg.smooth_win))

NextHelpers ==
    \/ CallNms
    \/ CallHysteresis
    \/ CallDeceleration
    \/ CallPelvisDrop
    \/ CallFootContact
    \/ CallGlobalAccel
    \/ CallReversal

SpecHelpers == InitHelpers /\ [][NextHelpers]_vars

\* One call of refine_events_with_tempo.  Two families of arguments: event
\* lists in any order, with repeats and with frames outside [0, T), on short
\* scores; and event sets inside [0, T) on longer scores.
MaxAnyT == 3
MaxAnyEvents == 3
MaxGridT == 6
BinaryScores(t) == {IntSig(s) : s \in [1..t -> {0, 1}]}
AnyEvents(t) == UNION {[1..n -> (-1)..t] : n \in 0..MaxAnyEvents}
GridEvents(t) == {SetToSortedSeq(S) : S \in SUBSET (0..(t - 1))}
RefineCalls ==
    {[fn |-> "refine_events_with_tempo", events_idx |-> c[1], score |-> c[2],
      max_drift_frames |-> d, min_events |-> m] :
        c \in UNION ({AnyEvents(t) \X BinaryScores(t) : t \in 0..MaxAnyT}
                     \cup {GridEvents(t) \X BinaryScores(t) : t \in (MaxAnyT + 1)..MaxGridT}),
        d \in {-1, 0, 1}, m \in {0, 3}}

InitRefine ==
    /\ arg \in RefineCalls
    /\ pc = "call"
    /\ C = NoCues
    /\ score = Zeros(0)
    /\ mask_hyst = <<>>
    /\ events_idx = <<>>
    /\ ret = NoRet
    /\ loader = NoLoader
    /\ local = NoLocal

CallRefine ==
    /\ pc = "call" /\ arg.fn = "refine_events_with_tempo"
    /\ \E nanfit \in {"raise", "nan"} :
          Returns("refine_events_with_tempo",
                  refine_events_with_tempo(arg.events_idx, arg.score, arg.max_drift_frames,
                                           arg.min_events, nanfit))

SpecRefine == InitRefine /\ [][CallRefine]_vars

\* ------------------------------------------------------------------ io/loadbvh.py
\* A line of the hierarchy section: has is the set of the keywords the line
\* contains ("{", "}", "ROOT", "JOINT", "OFFSET", "CHANNELS", "End Site");
\* offset holds the numbers of an OFFSET line, n the count of a CHANNELS line
\* and labels its channel names.  A channel name is [axis, kind]: axis is
\* ord(first character) - ord("X") (X_ASCII_ORD), kind is "position" or
\* "rotation".
Line(has, offset, n, labels) == [has |-> has, offset |-> offset, n |-> n, labels |-> labels]
LBrace == Line({"{"}, <<>>, 0, <<>>)
RBrace == Line({"}"}, <<>>, 0, <<>>)
RootLine == Line({"ROOT"}, <<>>, 0, <<>>)
JointLine == Line({"JOINT"}, <<>>, 0, <<>>)
EndSiteLine == Line({"End Site"}, <<>>, 0, <<>>)
OffsetLine(v) == Line({"OFFSET"}, v, 0, <<>>)
ChannelsLine(n, labels) == Line({"CHANNELS"}, <<>>, n, labels)
BlankLine == Line({}, <<>>, 0, <<>>)
Pos(axis) == [axis |-> axis, kind |-> "position"]
Rot(axis) == [axis |-> axis, kind |-> "rotation"]

\* an array buffer of a joint: ndim is 0 for None, 1 for np.empty(shape=0) and
\* more for an array with one entry per frame, held in f
Buffer(ndim, f) == [ndim |-> ndim, f |-> f]

\* class Joint; a joint object is known by its identity, the index of its
\* cell in the sequence of the objects created so far (0-based)
Joint(nest_depth, parent, is_root, is_end_site, joint_index) ==
    [nest_depth |-> nest_depth, parent |-> parent, offset |-> <<0, 0, 0>>,
     n_channels |-> 0, d_order |-> <<0, 1, 2>>, order |-> <<-1, -1>>,
     is_root |-> is_root, is_end_site |-> is_end_site, joint_index |-> joint_index,
     d_xyz |-> Buffer(0, <<>>), r_xyz |-> Buffer(0, <<>>), trans |-> Buffer(0, <<>>)]

Last(s) == s[Len(s)]
Front(s) == SubSeq(s, 1, Len(s) - 1)
SetLast(s, v) == [s EXCEPT ![Len(s)] = v]
\* tuple(sorted(order)) == (0, 1, 2)
IsPermutationXYZ(order) == SortInts(order) = <<0, 1, 2>>

\* The locals of _parse_hierarchy with self.skeleton: joints holds the Joint
\* objects by identity, skeleton and joints_stack hold identities (None for
\* the None at the bottom of the stack).
HierarchyStart ==
    [exc |-> "none", current_joint |-> None, brace_count |-> 0, joint_index |-> 0,
     joints_stack |-> <<None>>, skeleton |-> <<>>, joints |-> <<>>]
Raise(st, e) == [st EXCEPT !.exc = e]
NewJoint(st, j) ==
    [st EXCEPT !.joints = Append(@, j), !.current_joint = Len(st.joints),
               !.skeleton = Append(@, Len(st.joints)),
               !.joints_stack = Append(@, Len(st.joints)),
               !.joint_index = @ + 1]
\* self.skeleton[-1] = current_joint; joints_stack[-1] = current_joint
StoreCurrent(st) ==
    IF st.skeleton = <<>> \/ st.joints_stack = <<>> THEN Raise(st, "IndexError")
    ELSE [st EXCEPT !.skeleton = SetLast(@, st.current_joint),
                    !.joints_stack = SetLast(@, st.current_joint)]

\* the assertion on a ROOT / JOINT line
JointLineAccepted(st, line, prev_joint) ==
    \/ /\ "ROOT" \in line.has
       /\ st.brace_count = 0
       /\ st.joint_index = 0
       /\ prev_joint = None
    \/ /\ "JOINT" \in line.has
       /\ st.brace_count >= 1
       /\ st.joint_index >= 1
       /\ prev_joint # None

\* the rotation order read from a CHANNELS line
ChannelOrder(line) ==
    IF line.n = 6
    THEN [j \in 1..3 |-> line.labels[Len(line.labels) - 3 + j].axis]
    ELSE [j \in 1..Min2(3, Len(line.labels)) |-> line.labels[j].axis]

\* one pass of the loop body of _parse_hierarchy
ParseLine(st, line) ==
    IF "{" \in line.has THEN [st EXCEPT !.brace_count = @ + 1]
    ELSE IF "}" \in line.has THEN
        LET popped == IF st.joints_stack # <<>> THEN Front(st.joints_stack) ELSE <<>>
        IN  [st EXCEPT !.brace_count = @ - 1,
                       !.joints_stack = popped,
                       !.current_joint = IF popped # <<>> THEN Last(popped) ELSE @]
    ELSE IF "ROOT" \in line.has \/ "JOINT" \in line.has THEN
        IF st.joints_stack = <<>> THEN Raise(st, "IndexError")
        ELSE IF ~JointLineAccepted(st, line, Last(st.joints_stack))
        THEN Raise(st, "AssertionError")
        ELSE NewJoint(st, Joint(st.brace_count, Last(st.joints_stack),
                                "ROOT" \in line.has /\ st.brace_count = 0, FALSE,
                                st.joint_index))
    ELSE IF "OFFSET" \in line.has THEN
        IF st.current_joint = None THEN Raise(st, "AttributeError")
        ELSE StoreCurrent([st EXCEPT !.joints[st.current_joint + 1].offset = line.offset])
    ELSE IF "CHANNELS" \in line.has THEN
        IF line.n \notin {3, 6} THEN Raise(st, "NotImplementedError")
        ELSE IF ~IsPermutationXYZ(ChannelOrder(line)) THEN Raise(st, "ValueError")
        ELSE IF st.current_joint = None THEN Raise(st, "AttributeError")
        ELSE StoreCurrent([st EXCEPT !.joints[st.current_joint + 1].order = ChannelOrder(line),
                                     !.joints[st.current_joint + 1].n_channels = line.n])
    ELSE IF "End Site" \in line.has THEN
        IF st.joints_stack = <<>> THEN Raise(st, "IndexError")
        ELSE NewJoint(st, Joint(st.brace_count, Last(st.joints_stack), FALSE, TRUE,
                                st.joint_index))
    ELSE st

\* _parse_hierarchy from line i on; the first exception ends it
RECURSIVE _parse_hierarchy(_, _, _)
_parse_hierarchy(st, hierarchy_section, i) ==
    IF i > Len(hierarchy_section) \/ st.exc # "none" THEN st
    ELSE _parse_hierarchy(ParseLine(st, hierarchy_section[i]), hierarchy_section, i + 1)

\* The motion section after the MOTION line: the Frames and Frame Time headers
\* (present or not, with their values), the numeric tokens that follow them,
\* and whether some non-numeric line follows them.  frame_time is a rational.
Motion(has_frames, frames, has_frame_time, frame_time, nums, stray) ==
    [has_frames |-> has_frames, frames |-> frames, has_frame_time |-> has_frame_time,
     frame_time |-> frame_time, nums |-> nums, stray |-> stray]

\* a position: a vector of numbers, NaN, or the translation column of a
\* finite transform (st = "value", "nan", "resolved")
Value3(v) == [st |-> "value", v |-> v]
NaN3 == [st |-> "nan", v |-> <<0, 0, 0>>]
Resolved3 == [st |-> "resolved", v |-> <<0, 0, 0>>]

\* sum(j.n_channels for j in self.skeleton)
RECURSIVE TotalChannels(_, _)
TotalChannels(joints, skeleton) ==
    IF skeleton = <<>> THEN 0
    ELSE joints[Head(skeleton) + 1].n_channels + TotalChannels(joints, Tail(skeleton))

\* int(round(1.0 / frame_time)) for frame_time # 0
FpsOf(frame_time) ==
    IF frame_time[1] > 0 THEN RoundHalfEven(frame_time[2], frame_time[1])
    ELSE RoundHalfEven(-frame_time[2], -frame_time[1])

\* self.frame_count after the comparison with frames_found: the header's
\* count is replaced when it differs (FrameCountFromHeader: it is kept)
FrameCountFromHeader(header, frames_found) == header
FrameCount(header, frames_found) == IF header # frames_found THEN frames_found ELSE header

\* _parse_motion up to the timing: the loader's fields and raw_motion_data
\* (frame f, channel c at f[(f - 1) * n_channels + c], both 1-based)
_parse_motion(joints, skeleton, motion) ==
    LET n_channels   == TotalChannels(joints, skeleton)
        total_values == Len(motion.nums)
        frames_found == total_values \div n_channels
        frame_count  == FrameCount(motion.frames, frames_found)
        out(e) == [exc |-> e, frame_count |-> 0, frame_time |-> Q(0, 1), fps |-> 0,
                   time |-> Q(0, 1), frame_times |-> <<>>, n_channels |-> n_channels,
                   raw_motion_data |-> <<>>]
    IN  IF ~(motion.has_frames /\ motion.has_frame_time
             /\ (motion.nums # <<>> \/ motion.stray))
        THEN out("AssertionError")
        ELSE IF n_channels <= 0 THEN out("AssertionError")
        ELSE IF total_values % n_channels # 0 THEN out("AssertionError")
        ELSE IF frame_count * n_channels # total_values
        THEN out("ValueError")
        ELSE IF motion.frame_time[1] = 0 THEN out("ZeroDivisionError")
        ELSE [exc |-> "none",
              frame_count |-> frame_count,
              frame_time |-> motion.frame_time,
              fps |-> FpsOf(motion.frame_time),
              time |-> Q((frame_count - 1) * motion.frame_time[1], motion.frame_time[2]),
              frame_times |-> [i \in 1..frame_count |->
                                  Q((i - 1) * motion.frame_time[1], motion.frame_time[2])],
              n_channels |-> n_channels,
              raw_motion_data |-> motion.nums]

\* raw_motion_data[f, c], f 1-based, c 0-based
RawAt(m, f, c) == m.raw_motion_data[(f - 1) * m.n_channels + c + 1]

\* the buffers _apply_initial_motion_data_to_skeleton gives one joint whose
\* channels start at channel_count
InitialBuffers(joint, m, channel_count) ==
    IF joint.n_channels = 6
    THEN [joint EXCEPT
            !.d_xyz = Buffer(2, [f \in 1..m.frame_count |->
                          Value3([a \in 1..3 |->
                              joint.offset[a] + RawAt(m, f, channel_count + joint.d_order[a])])]),
            !.r_xyz = Buffer(2, [f \in 1..m.frame_count |-> "set"]),
            !.trans = Buffer(3, [f \in 1..m.frame_count |-> "computed"])]
    ELSE IF joint.n_channels = 3
    THEN [joint EXCEPT
            !.d_xyz = Buffer(2, [f \in 1..m.frame_count |-> NaN3]),
            !.r_xyz = Buffer(2, [f \in 1..m.frame_count |-> "set"]),
            !.trans = Buffer(3, [f \in 1..m.frame_count |-> "nan"])]
    ELSE [joint EXCEPT
            !.d_xyz = Buffer(2, [f \in 1..m.frame_count |-> NaN3]),
            !.r_xyz = Buffer(1, <<>>),
            !.trans = Buffer(1, <<>>)]

\* _apply_initial_motion_data_to_skeleton from list position p on
RECURSIVE _apply_initial_motion_data_to_skeleton(_, _, _, _, _)
_apply_initial_motion_data_to_skeleton(joints, skeleton, m, p, channel_count) ==
    IF p > Len(skeleton) THEN [exc |-> "none", joints |-> joints]
    ELSE LET id == skeleton[p] + 1
         IN  IF joints[id].n_channels \notin {0, 3, 6}
             THEN [exc |-> "ValueError", joints |-> joints]
             ELSE _apply_initial_motion_data_to_skeleton(
                      [joints EXCEPT ![id] = InitialBuffers(joints[id], m, channel_count)],
                      skeleton, m, p + 1, channel_count + joints[id].n_channels)

\* what reading parent.trans[:, :, fi] raises, "none" when it can be read
ReadParentTrans(joints, joint) ==
    IF joint.parent = None THEN "AttributeError"
    ELSE IF joints[joint.parent + 1].trans.ndim = 0 THEN "TypeError"
    ELSE IF joints[joint.parent + 1].trans.ndim # 3 THEN "IndexError"
    ELSE "none"
\* parent.trans[:, :, fi] @ transM is finite exactly when parent.trans is
ParentComputed(joints, joint, f) == joints[joint.parent + 1].trans.f[f] = "computed"

\* the first loop of _apply_kinematics_to_skeleton from list position p on
RECURSIVE KinematicsOfJoints(_, _, _, _)
KinematicsOfJoints(joints, skeleton, frame_count, p) ==
    IF p > Len(skeleton) THEN [exc |-> "none", joints |-> joints]
    ELSE LET id == skeleton[p] + 1
             joint == joints[id]
         IN  IF joint.is_end_site \/ joint.is_root \/ frame_count = 0
             THEN KinematicsOfJoints(joints, skeleton, frame_count, p + 1)
             ELSE IF joint.r_xyz.ndim = 0 THEN [exc |-> "TypeError", joints |-> joints]
             ELSE IF joint.r_xyz.ndim # 2 THEN [exc |-> "IndexError", joints |-> joints]
             ELSE IF ReadParentTrans(joints, joint) # "none"
             THEN [exc |-> ReadParentTrans(joints, joint), joints |-> joints]
             ELSE KinematicsOfJoints(
                      [joints EXCEPT
                          ![id].trans = Buffer(3, [f \in 1..frame_count |->
                              IF ParentComputed(joints, joint, f) THEN "computed" ELSE "nan"]),
                          ![id].d_xyz = Buffer(2, [f \in 1..frame_count |->
                              IF ParentComputed(joints, joint, f) THEN Resolved3 ELSE NaN3])],
                      skeleton, frame_count, p + 1)

\* the second loop, over the end sites
RECURSIVE KinematicsOfEndSites(_, _, _, _)
KinematicsOfEndSites(joints, skeleton, frame_count, p) ==
    IF p > Len(skeleton) THEN [exc |-> "none", joints |-> joints]
    ELSE LET id == skeleton[p] + 1
             joint == joints[id]
         IN  IF ~joint.is_end_site \/ frame_count = 0
             THEN KinematicsOfEndSites(joints, skeleton, frame_count, p + 1)
             ELSE IF ReadParentTrans(joints, joint) # "none"
             THEN [exc |-> ReadParentTrans(joints, joint), joints |-> joints]
             ELSE KinematicsOfEndSites(
                      [joints EXCEPT
                          ![id].d_xyz = Buffer(2, [f \in 1..frame_count |->
                              IF ParentComputed(joints, joint, f) THEN Resolved3 ELSE NaN3])],
                      skeleton, frame_count, p + 1)

KinematicsThen(first, skeleton, frame_count) ==
    IF first.exc # "none" THEN first
    ELSE KinematicsOfEndSites(first.joints, skeleton, frame_count, 1)
_apply_kinematics_to_skeleton(joints, skeleton, frame_count) ==
    KinematicsThen(KinematicsOfJoints(joints, skeleton, frame_count, 1), skeleton, frame_count)

\* ------------------------------------------------------------------ loadbvh calls
\* One call of loadbvh on a file: arg holds the two sections _get_sections
\* hands on, loader the BVHLoader object, local the locals of the method run
\* last, ret the returned tuple.
MaxFrames == 2
MaxFreeLines == 2

RootOffset == <<10, 20, 30>>
JointOffset == <<1, 0, 0>>
EndOffset == <<0, 1, 0>>
Channels6 == ChannelsLine(6, <<Pos(0), Pos(1), Pos(2), Rot(2), Rot(0), Rot(1)>>)
Channels6ZYX == ChannelsLine(6, <<Pos(2), Pos(1), Pos(0), Rot(2), Rot(0), Rot(1)>>)
Channels3 == ChannelsLine(3, <<Rot(2), Rot(0), Rot(1)>>)
Channels3XXY == ChannelsLine(3, <<Rot(0), Rot(0), Rot(1)>>)
Channels4 == ChannelsLine(4, <<Pos(1), Rot(2), Rot(0), Rot(1)>>)

\* well-formed hierarchies: a root with an end site; a root, a joint and an
\* end site; a root with two joints, each with an end site
EndSiteBlock == <<EndSiteLine, LBrace, OffsetLine(EndOffset), RBrace>>
JointBlock(head, offset, channels, inner) ==
    <<head, LBrace, OffsetLine(offset), channels>> \o inner \o <<RBrace>>
Chain1(rc) == JointBlock(RootLine, RootOffset, rc, EndSiteBlock)
Chain2(rc, jc) ==
    JointBlock(RootLine, RootOffset, rc, JointBlock(JointLine, JointOffset, jc, EndSiteBlock))
Fork(rc) ==
    JointBlock(RootLine, RootOffset, rc,
               JointBlock(JointLine, JointOffset, Channels3, EndSiteBlock)
               \o JointBlock(JointLine, JointOffset, Channels3, EndSiteBlock))
RootChannels == {Channels6, Channels6ZYX, Channels3}
WellFormed ==
    {Chain1(rc) : rc \in RootChannels}
    \cup {Chain2(rc, jc) : rc \in RootChannels, jc \in {Channels3, Channels6}}
    \cup {Fork(Channels6)}

\* the lines a damaged file may hold
SomeLines ==
    {LBrace, RBrace, RootLine, JointLine, EndSiteLine, OffsetLine(JointOffset),
     Channels3, Channels3XXY, Channels4, BlankLine}
DeleteLine(h, k) == SubSeq(h, 1, k - 1) \o SubSeq(h, k + 1, Len(h))
InsertLine(h, k, line) == SubSeq(h, 1, k - 1) \o <<line>> \o SubSeq(h, k, Len(h))
\* a well-formed hierarchy with one line lost or one line added
Damaged(h) ==
    {DeleteLine(h, k) : k \in 1..Len(h)}
    \cup {InsertLine(h, k, line) : k \in 1..(Len(h) + 1), line \in SomeLines}
FreeHierarchies == UNION {[1..n -> SomeLines] : n \in 0..MaxFreeLines}

\* the channel count a hierarchy declares, line by line
RECURSIVE DeclaredChannels(_)
DeclaredChannels(h) ==
    IF h = <<>> THEN 0
    ELSE (IF "CHANNELS" \in Head(h).has THEN Head(h).n ELSE 0) + DeclaredChannels(Tail(h))

\* a motion section with both headers and k full frames of n channels; the
\* values are 1, 2, 3, ...
Numbers(count) == [i \in 1..count |-> i]
PlainMotion(n, k) == Motion(TRUE, k, TRUE, Q(1, 30), Numbers(n * k), FALSE)
FrameTimes == {Q(1, 30), Q(0, 1), Q(2, 1), Q(-1, 10)}
MotionVariants(n) ==
    {Motion(hf, IF hf THEN fr ELSE 0, ht, IF ht THEN ft ELSE Q(0, 1),
            Numbers(n * k + extra), stray) :
        hf \in BOOLEAN, fr \in 0..(MaxFrames + 1), ht \in BOOLEAN, ft \in FrameTimes,
        k \in 0..MaxFrames, extra \in {0, 1}, stray \in BOOLEAN}

BvhFile(h, m) == [fn |-> "loadbvh", hierarchy_section |-> h, motion_section |-> m]
\* damaged hierarchies with the motion data of the undamaged file
DamagedFiles ==
    UNION {{BvhFile(d, PlainMotion(DeclaredChannels(h), k)) :
               d \in Damaged(h), k \in 1..MaxFrames} : h \in WellFormed}
\* any short hierarchy, with frames of 3 or 6 values and a trailing text line
FreeFiles ==
    {BvhFile(h, Motion(TRUE, k, TRUE, Q(1, 30), Numbers(n * k), TRUE)) :
        h \in FreeHierarchies, n \in {3, 6}, k \in 0..MaxFrames}
\* well-formed hierarchies with any of the motion sections
MotionFiles ==
    UNION {{BvhFile(h, m) : m \in MotionVariants(DeclaredChannels(h))} : h \in WellFormed}
BvhFiles == DamagedFiles \cup FreeFiles \cup MotionFiles

\* BVHLoader(filename); joints holds the Joint objects created so far
BVHLoader ==
    [skeleton |-> <<>>, joints |-> <<>>, time |-> Q(0, 1), fps |-> 0,
     frame_times |-> <<>>, frame_count |-> 0, frame_time |-> Q(0, 1)]

InitBvh ==
    /\ arg \in BvhFiles
    /\ pc = "call"
    /\ C = NoCues
    /\ score = Zeros(0)
    /\ mask_hyst = <<>>
    /\ events_idx = <<>>
    /\ ret = NoRet
    /\ loader = BVHLoader
    /\ local = NoLocal

\* an exception leaves load and loadbvh
LoadRaises(e) ==
    /\ pc' = "raised"
    /\ ret' = [exc |-> e]
LoadGoesOn(stage) ==
    /\ pc' = stage
    /\ ret' = ret

\* load: self._parse_hierarchy(hierarchy_section)
HierarchyParsed(st) ==
    /\ loader' = [loader EXCEPT !.skeleton = st.skeleton, !.joints = st.joints]
    /\ local' = [current_joint |-> st.current_joint, brace_count |-> st.brace_count,
                 joint_index |-> st.joint_index, joints_stack |-> st.joints_stack]
    /\ IF st.exc = "none" THEN LoadGoesOn("_parse_hierarchy") ELSE LoadRaises(st.exc)
ParseHierarchy ==
    /\ pc = "call" /\ arg.fn = "loadbvh"
    /\ HierarchyParsed(_parse_hierarchy(HierarchyStart, arg.hierarchy_section, 1))
    /\ UNCHANGED <<arg, C, score, mask_hyst, events_idx>>

\* load: self._parse_motion(motion_section), up to the timing
MotionParsed(m) ==
    /\ loader' = IF m.exc = "none"
                 THEN [loader EXCEPT !.frame_count = m.frame_count,
                                     !.frame_time = m.frame_time, !.fps = m.fps,
                                     !.time = m.time, !.frame_times = m.frame_times]
                 ELSE loader
    /\ local' = [n_channels |-> m.n_channels, raw_motion_data |-> m.raw_motion_data,
                 frame_count |-> m.frame_count]
    /\ IF m.exc = "none" THEN LoadGoesOn("_parse_motion") ELSE LoadRaises(m.exc)
ParseMotion ==
    /\ pc = "_parse_hierarchy"
    /\ MotionParsed(_parse_motion(loader.joints, loader.skeleton, arg.motion_section))
    /\ UNCHANGED <<arg, C, score, mask_hyst, events_idx>>

\* _parse_motion: self._apply_initial_motion_data_to_skeleton(raw_motion_data)
JointsUpdated(r, stage) ==
    /\ loader' = [loader EXCEPT !.joints = r.joints]
    /\ IF r.exc = "none" THEN LoadGoesOn(stage) ELSE LoadRaises(r.exc)
ApplyInitialMotion ==
    /\ pc = "_parse_motion"
    /\ JointsUpdated(_apply_initial_motion_data_to_skeleton(loader.joints, loader.skeleton,
                                                            local, 1, 0),
                     "_apply_initial_motion_data_to_skeleton")
    /\ UNCHANGED <<arg, C, score, mask_hyst, events_idx, local>>

\* _parse_motion: self._apply_kinematics_to_skeleton()
ApplyKinematics ==
    /\ pc = "_apply_initial_motion_data_to_skeleton"
    /\ JointsUpdated(_apply_kinematics_to_skeleton(loader.joints, loader.skeleton,
                                                   loader.frame_count),
                     "_apply_kinematics_to_skeleton")
    /\ UNCHANGED <<arg, C, score, mask_hyst, events_idx, local>>

\* loadbvh returns (skeleton, frame_times, time, fps); the skeleton's joints
\* are read through joints
ReturnLoadbvh ==
    /\ pc = "_apply_kinematics_to_skeleton"
    /\ ret' = [exc |-> "none",
               val |-> [skeleton |-> loader.skeleton, joints |-> loader.joints,
                        frame_times |-> loader.frame_times, time |-> loader.time,
                        fps |-> loader.fps]]
    /\ pc' = "returned"
    /\ UNCHANGED <<arg, C, score, mask_hyst, events_idx, loader, local>>

NextBvh ==
    \/ ParseHierarchy
    \/ ParseMotion
    \/ ApplyInitialMotion
    \/ ApplyKinematics
    \/ ReturnLoadbvh

SpecBvh == InitBvh /\ [][NextBvh]_vars

\* ------------------------------------------------------------------ properties
StrictlyIncreasing(s) == \A i \in 1..(Len(s) - 1) : s[i] < s[i + 1]
InFrames(s, len) == \A i \in 1..Len(s) : 0 <= s[i] /\ s[i] < len
InUnit(x) == \A i \in 1..SigLen(x) : 0 <= x.n[i] /\ x.n[i] <= x.d
Returned == pc = "returned" /\ ret.exc = "none"
\* the per-frame arrays of the returned dictionary
CueFields(v) ==
    IF arg.version = 1 THEN <<v.C_decel, v.C_pelvis, v.C_foot>>
    ELSE <<v.C_decel, v.C_pelvis, v.C_foot, v.C_accel, v.C_reversal>>
\* the fused score reaches score_threshold within snap_recheck_radius frames of e
ReachesThreshold(sc, e) ==
    \E t \in 0..(SigLen(sc) - 1) :
        /\ Abs(t - e) <= Max2(0, arg.params.snap_recheck_radius)
        /\ QLe(arg.params.score_threshold, At(sc, t + 1))

\* C1: a call of extract_beats_v1 / extract_beats_v2 with T >= 1 and fps > 0
\* that returns, returns events_idx strictly increasing with every element in
\* [0, T), whichever stages ran.
C1_EventsSortedInRange ==
    (Returned /\ T >= 1 /\ arg.fps > 0) =>
        /\ StrictlyIncreasing(ret.val.events_idx)
        /\ InFrames(ret.val.events_idx, T)
\* a v2 call that went through NMS, phase snap, recheck and refinement and
\* returns two or more events
C1_Witness ==
    /\ Returned /\ arg.version = 2 /\ arg.fps > 0
    /\ arg.params.phase_snap_radius > 0
    /\ (_valid_idx(arg.left_foot_idx, 1) \/ _valid_idx(arg.right_foot_idx, 1))
    /\ Len(ret.val.events_idx) >= 2

\* C4: when T = 0 or fps <= 0 the call returns without raising and every
\* field of the result is an empty array.
C4_DegenerateReturnsEmpty ==
    (pc \in {"returned", "raised"} /\ (T = 0 \/ arg.fps <= 0)) =>
        /\ ret.exc = "none"
        /\ SigLen(ret.val.beat_score) = 0
        /\ Len(ret.val.candidate_mask) = 0
        /\ Len(ret.val.events_idx) = 0
        /\ \A j \in 1..Len(CueFields(ret.val)) : SigLen(CueFields(ret.val)[j]) = 0
        /\ DOMAIN ret.val =
              {"beat_score", "candidate_mask", "events_idx", "C_decel", "C_pelvis", "C_foot"}
              \cup (IF arg.version = 2 THEN {"C_accel", "C_reversal"} ELSE {})
\* a v2 call with frames but fps <= 0 has returned
C4_Witness == pc = "returned" /\ arg.version = 2 /\ T >= 1 /\ arg.fps <= 0

\* C5 as stated: on every input on which the call returns, each per-frame
\* array has length T and every beat_score and C_* value lies in [0,1].
C5_Claim ==
    Returned =>
        /\ SigLen(ret.val.beat_score) = T
        /\ Len(ret.val.candidate_mask) = T
        /\ InUnit(ret.val.beat_score)
        /\ \A j \in 1..Len(CueFields(ret.val)) :
              SigLen(CueFields(ret.val)[j]) = T /\ InUnit(CueFields(ret.val)[j])
\* C5, amended: the same for the calls with fps > 0 (with fps <= 0 the arrays
\* are empty whatever T is).
C5_LengthsAndRange ==
    (Returned /\ arg.fps > 0) =>
        /\ SigLen(ret.val.beat_score) = T
        /\ Len(ret.val.candidate_mask) = T
        /\ InUnit(ret.val.beat_score)
        /\ \A j \in 1..Len(CueFields(ret.val)) :
              SigLen(CueFields(ret.val)[j]) = T /\ InUnit(CueFields(ret.val)[j])
\* a returned v2 score with a value strictly between 0 and 1
C5_Witness ==
    /\ Returned /\ arg.fps > 0 /\ arg.version = 2
    /\ \E i \in 1..T : 0 < ret.val.beat_score.n[i]
                       /\ ret.val.beat_score.n[i] < ret.val.beat_score.d

\* C7 as stated: every non-degenerate call of extract_beats_v2 ends by
\* applying the tempo-aware refinement to the surviving events: the step into
\* the return statement leaves events_idx = refine_events_with_tempo(events_idx,
\* score), with or without a phase snap.
C7_Claim ==
    [][(arg.version = 2 /\ pc # "final" /\ pc' = "final") =>
          events_idx' = refine_events_with_tempo(events_idx, score, RefineDrift,
                                                 RefineMinEvents, "raise").ev]_vars

\* C8 as stated: every event extract_beats_v2 returns has the fused score
\* reaching score_threshold within snap_recheck_radius frames of it.
C8_Claim ==
    (Returned /\ arg.version = 2 /\ arg.fps > 0) =>
        \A i \in 1..Len(ret.val.events_idx) :
            ReachesThreshold(ret.val.beat_score, ret.val.events_idx[i])
\* C8, amended: the events left by the hard recheck, before the refinement
\* that follows it, all have the fused score reaching score_threshold within
\* snap_recheck_radius frames.
C8_AfterRecheck ==
    pc = "rechecked" =>
        \A i \in 1..Len(events_idx) : ReachesThreshold(score, events_idx[i])
\* the recheck has kept an event whose own frame is below the threshold
C8_Witness ==
    /\ pc = "rechecked"
    /\ \E i \in 1..Len(events_idx) :
          ~QLe(arg.params.score_threshold, At(score, events_idx[i] + 1))

\* C2: two distinct indices returned by _nms_basic are at least
\* win = max(1, round(min_sep_s * fps)) frames apart, and every local maximum
\* that is not returned lies within win frames of a returned index whose score
\* is at least its own.
C2_NmsSeparation ==
    pc = "_nms_basic" =>
        LET win    == Max2(1, RoundHalfEven(arg.min_sep_s[1] * arg.fps, arg.min_sep_s[2]))
            picked == SeqToSet(ret.val)
            sc     == arg.score.n
        IN  /\ \A a, b \in picked : a # b => Abs(a - b) >= win
            /\ \A m \in 0..(Len(sc) - 1) :
                  (_local_maxima(arg.score)[m + 1] /\ m \notin picked) =>
                      \E q \in picked : Abs(q - m) <= win /\ sc[q + 1] >= sc[m + 1]
\* a call that returned an index and suppressed another local maximum
C2_Witness ==
    /\ pc = "_nms_basic"
    /\ ret.val # <<>>
    /\ \E m \in 0..(SigLen(arg.score) - 1) :
          _local_maxima(arg.score)[m + 1] /\ m \notin SeqToSet(ret.val)

\* C3: for thr_hi >= thr_lo, mask[i] is true exactly when some j <= i has
\* score[j] >= thr_hi and score[k] >= thr_lo for every k with j < k <= i.
C3_HysteresisCharacterised ==
    (pc = "_hysteresis_mask" /\ QLe(arg.thr_lo, arg.thr_hi)) =>
        \A i \in 1..SigLen(arg.score) :
            ret.val[i] <=>
                \E j \in 1..i :
                    /\ QLe(arg.thr_hi, At(arg.score, j))
                    /\ \A k \in (j + 1)..i : QLe(arg.thr_lo, At(arg.score, k))
\* a mask that stays on at a sample below thr_hi and is off again later
C3_Witness ==
    /\ pc = "_hysteresis_mask" /\ QLt(arg.thr_lo, arg.thr_hi)
    /\ \E i, j \in 1..SigLen(arg.score) :
          /\ i < j
          /\ ret.val[i] /\ QLt(At(arg.score, i), arg.thr_hi)
          /\ ~ret.val[j]

\* C6 as stated: for T = 1 and T = 2 each of the five cue extractors returns an
\* all-zero array of length T and raises no exception.
C6_Claim ==
    (/\ pc \in {"_cue_deceleration", "_cue_pelvis_drop", "_cue_foot_contact",
                "_cue_global_accel", "_cue_reversal"}
     /\ SigLen(arg.positions) \in {1, 2}) =>
        ret = Zeros(SigLen(arg.positions))

\* C9 as stated: for any events, score, min_events and max_drift_frames the
\* returned array is strictly increasing with every element in [0, T), on
\* every return path.
C9_Claim ==
    (pc = "refine_events_with_tempo" /\ ret.exc = "none") =>
        /\ StrictlyIncreasing(ret.ev)
        /\ InFrames(ret.ev, SigLen(arg.score))
\* C9, amended: the returned array is strictly increasing on every return
\* path; its elements lie in [0, T) on every path but the first too-few exit,
\* which returns the sorted distinct input events as they are.
C9_SortedAndClamped ==
    (pc = "refine_events_with_tempo" /\ ret.exc = "none") =>
        /\ StrictlyIncreasing(ret.ev)
        /\ ret.path # "few" => InFrames(ret.ev, SigLen(arg.score))
        /\ ret.path = "few" => ret.ev = SetToSortedSeq(SeqToSet(arg.events_idx))
\* a call given a frame outside [0, T) that went through the snapping loop
C9_Witness ==
    /\ pc = "refine_events_with_tempo" /\ ret.exc = "none"
    /\ ret.path = "snapped"
    /\ ~InFrames(arg.events_idx, SigLen(arg.score))
    /\ ~StrictlyIncreasing(arg.events_idx)

\* C10 as stated: on a too-few-events exit the returned set equals the set of
\* input events.
C10_Claim ==
    (/\ pc = "refine_events_with_tempo" /\ ret.exc = "none"
     /\ ret.path \in {"few", "few_in_range"}) =>
        SeqToSet(ret.ev) = SeqToSet(arg.events_idx)

\* the window of the snapping loop around the predicted frame c, clipped to
\* [0, len): 0-based frames
SnapWindow(c, max_drift_frames, len) ==
    Max2(0, c - Max2(0, max_drift_frames))..(Min2(len, c + Max2(0, max_drift_frames) + 1) - 1)
RefinedBySnapping ==
    pc = "refine_events_with_tempo" /\ ret.exc = "none" /\ ret.path = "snapped"

\* C11 as stated: when the refinement is performed, every returned frame f
\* comes from a beat number whose predicted frame c has |f - c| <=
\* max_drift_frames, f has the maximum score over the clipped window of c, and
\* the output has no more events than the input.
C11_Claim ==
    RefinedBySnapping =>
        /\ \A i \in 1..Len(ret.ev) : \E k \in 1..Len(ret.c) :
              /\ Abs(ret.ev[i] - ret.c[k]) <= arg.max_drift_frames
              /\ ret.ev[i] \in SnapWindow(ret.c[k], arg.max_drift_frames, SigLen(arg.score))
              /\ \A j \in SnapWindow(ret.c[k], arg.max_drift_frames, SigLen(arg.score)) :
                    arg.score.n[j + 1] <= arg.score.n[ret.ev[i] + 1]
        /\ Len(ret.ev) <= Len(arg.events_idx)
\* C11, amended: the same with the distance bound max(0, max_drift_frames), the
\* drift the loop uses; a predicted frame whose clipped window is empty gives
\* no returned frame and every other predicted frame gives one.
C11_SnappedWithinDrift ==
    RefinedBySnapping =>
        /\ \A i \in 1..Len(ret.ev) : \E k \in 1..Len(ret.c) :
              /\ Abs(ret.ev[i] - ret.c[k]) <= Max2(0, arg.max_drift_frames)
              /\ ret.ev[i] \in SnapWindow(ret.c[k], arg.max_drift_frames, SigLen(arg.score))
              /\ \A j \in SnapWindow(ret.c[k], arg.max_drift_frames, SigLen(arg.score)) :
                    arg.score.n[j + 1] <= arg.score.n[ret.ev[i] + 1]
        /\ \A k \in 1..Len(ret.c) :
              SnapWindow(ret.c[k], arg.max_drift_frames, SigLen(arg.score)) # {} =>
                  \E i \in 1..Len(ret.ev) :
                      ret.ev[i] \in SnapWindow(ret.c[k], arg.max_drift_frames, SigLen(arg.score))
        /\ Len(ret.ev) <= Len(arg.events_idx)
\* a refinement that moved a frame and merged two predictions into one event
C11_Witness ==
    /\ RefinedBySnapping
    /\ arg.max_drift_frames > 0
    /\ Len(ret.ev) < Len(ret.c)
    /\ \E i \in 1..Len(ret.ev) : \A k \in 1..Len(ret.c) : ret.ev[i] # ret.c[k]

\* ------------------------------------------------------------------ loadbvh properties
LoadReturned == arg.fn = "loadbvh" /\ pc = "returned"
LoadRaised == arg.fn = "loadbvh" /\ pc = "raised"

\* the nesting depth after each line of a hierarchy, from depth d
RECURSIVE BraceDepths(_, _)
BraceDepths(h, d) ==
    IF h = <<>> THEN <<>>
    ELSE LET after == IF "{" \in Head(h).has THEN d + 1
                      ELSE IF "}" \in Head(h).has THEN d - 1 ELSE d
         IN  <<after>> \o BraceDepths(Tail(h), after)
UnbalancedBraces(h) ==
    \/ \E i \in 1..Len(h) : BraceDepths(h, 0)[i] < 0
    \/ h # <<>> /\ Last(BraceDepths(h, 0)) # 0
NoRootJoint(h) == \A i \in 1..Len(h) : "ROOT" \notin h[i].has
BadChannelCount(h) == \E i \in 1..Len(h) : "CHANNELS" \in h[i].has /\ h[i].n \notin {3, 6}
\* the axes of the rotation channels of a CHANNELS line
RotationAxes(line) ==
    LET rot == SelectSeq(line.labels, LAMBDA l : l.kind = "rotation")
    IN  [j \in 1..Len(rot) |-> rot[j].axis]
BadRotationOrder(h) ==
    \E i \in 1..Len(h) : "CHANNELS" \in h[i].has /\ SortInts(RotationAxes(h[i])) # <<0, 1, 2>>
MalformedHierarchy(h) ==
    UnbalancedBraces(h) \/ NoRootJoint(h) \/ BadChannelCount(h) \/ BadRotationOrder(h)

\* C12: load raises, and returns no skeleton, for every hierarchy section with
\* unbalanced braces, without a ROOT joint, with a channel count other than 3
\* or 6, or with rotation channels that are not a permutation of X, Y, Z.
C12_Claim == MalformedHierarchy(arg.hierarchy_section) => ~LoadReturned


\* the joint at 1-based list position p of the returned skeleton
ReturnedJoint(p) == ret.val.joints[ret.val.skeleton[p] + 1]
ReturnedFrames == 1..Len(ret.val.frame_times)
\* C13: whenever load returns normally, every joint of the skeleton, end sites
\* included, has a resolved position at every frame: none keeps the NaN
\* placeholder of _apply_initial_motion_data_to_skeleton, whether the ROOT and
\* the other joints declare 3 or 6 channels.
C13_Claim ==
    LoadReturned =>
        \A p \in 1..Len(ret.val.skeleton) :
            /\ ReturnedJoint(p).d_xyz.ndim = 2
            /\ \A f \in ReturnedFrames : ReturnedJoint(p).d_xyz.f[f].st # "nan"


\* the joint at 1-based list position p of the loader's skeleton
SkeletonJoint(p) == loader.joints[loader.skeleton[p] + 1]
HierarchySucceeded ==
    arg.fn = "loadbvh" /\ pc \notin {"call", "raised"}
\* C14: after _parse_hierarchy succeeds on any sequence of hierarchy lines,
\* exactly one joint has is_root and it is at list position 0, each joint's
\* joint_index is its list position, every other joint's parent is at an
\* earlier list position, and _apply_kinematics_to_skeleton reads a parent's
\* transform for a frame only after it has been computed.
C14_Claim ==
    /\ HierarchySucceeded =>
          /\ {p \in 1..Len(loader.skeleton) : SkeletonJoint(p).is_root} = {1}
          /\ \A p \in 1..Len(loader.skeleton) : SkeletonJoint(p).joint_index = p - 1
          /\ \A p \in 2..Len(loader.skeleton) :
                \E q \in 1..(p - 1) : loader.skeleton[q] = SkeletonJoint(p).parent
    /\ (arg.fn = "loadbvh" /\ pc \in {"_apply_kinematics_to_skeleton", "returned"}) =>
          \A p \in 1..Len(loader.skeleton) : \A f \in 1..loader.frame_count :
              ~SkeletonJoint(p).is_root => SkeletonJoint(p).d_xyz.f[f].st = "resolved"


\* a < b for rationals with positive denominators
QLess(a, b) == a[1] * b[2] < b[1] * a[2]
QEqual(a, b) == a[1] * b[2] = b[1] * a[2]
\* C15: after every successful loadbvh the returned frame_times is strictly
\* increasing, the frame count T is at least 1, the returned fps is greater
\* than 0 and the returned duration is (T - 1) * frame_time.
C15_Claim ==
    LoadReturned =>
        /\ \A i \in 1..(Len(ret.val.frame_times) - 1) :
              QLess(ret.val.frame_times[i], ret.val.frame_times[i + 1])
        /\ Len(ret.val.frame_times) >= 1
        /\ ret.val.fps > 0
        /\ QEqual(ret.val.time,
                  Q((Len(ret.val.frame_times) - 1) * arg.motion_section.frame_time[1],
                    arg.motion_section.frame_time[2]))


\* the number of frames recovered from the data of the motion section: the
\* count of its numeric values over the channels of the parsed skeleton
RecoveredFrames == Len(arg.motion_section.nums) \div TotalChannels(loader.joints, loader.skeleton)
\* the Frames header declares another count than the data holds
HeaderDiffers ==
    /\ arg.fn = "loadbvh"
    /\ pc \notin {"call", "raised"}
    /\ arg.motion_section.has_frames
    /\ TotalChannels(loader.joints, loader.skeleton) > 0
    /\ Len(arg.motion_section.nums) % TotalChannels(loader.joints, loader.skeleton) = 0
    /\ arg.motion_section.frames # RecoveredFrames
\* the per-frame buffers of a joint hold n frames
BuffersHold(joint, n) ==
    /\ joint.d_xyz.ndim = 2 /\ Len(joint.d_xyz.f) = n
    /\ joint.n_channels > 0 =>
          /\ joint.r_xyz.ndim = 2 /\ Len(joint.r_xyz.f) = n
          /\ joint.trans.ndim = 3 /\ Len(joint.trans.f) = n
\* _parse_motion on the file with the Frames header set to the recovered count
WithRecoveredHeader ==
    _parse_motion(loader.joints, loader.skeleton,
                  [arg.motion_section EXCEPT !.frames = RecoveredFrames])
\* C16: when the Frames header differs from the number of frames in the data,
\* loading does not fail for it (_parse_motion ends as on the file with the
\* right header), and frame_count, frame_times and every joint's buffers hold
\* the number of frames recovered from the data, not the header's.
C16_RecoveredCountWins ==
    [][HeaderDiffers =>
          /\ (pc = "_parse_hierarchy" /\ pc' = "raised") =>
                /\ WithRecoveredHeader.exc # "none"
                /\ ret'.exc = WithRecoveredHeader.exc
          /\ pc' = "_parse_motion" =>
                /\ loader'.frame_count = RecoveredFrames
                /\ Len(loader'.frame_times) = RecoveredFrames
                /\ loader' = [loader EXCEPT !.frame_count = WithRecoveredHeader.frame_count,
                                            !.frame_time = WithRecoveredHeader.frame_time,
                                            !.fps = WithRecoveredHeader.fps,
                                            !.time = WithRecoveredHeader.time,
                                            !.frame_times = WithRecoveredHeader.frame_times]
          /\ pc' \in {"_apply_initial_motion_data_to_skeleton", "_apply_kinematics_to_skeleton",
                      "returned"} =>
                \A p \in 1..Len(loader'.skeleton) :
                    BuffersHold(loader'.joints[loader'.skeleton[p] + 1], RecoveredFrames)
          /\ pc' = "returned" => Len(ret'.val.frame_times) = RecoveredFrames]_vars
\* a file of a root, a joint and an end site loaded with a wrong Frames header
C16_Witness ==
    /\ LoadReturned
    /\ arg.motion_section.frames # Len(ret.val.frame_times)
    /\ Len(ret.val.frame_times) = MaxFrames
    /\ arg.motion_section.frames > 0
    /\ Len(ret.val.skeleton) > 2
    /\ \A p \in 1..Len(ret.val.skeleton) : BuffersHold(ReturnedJoint(p), MaxFrames)


\* the CHANNELS line of the ROOT of a well-formed hierarchy
RootChannelsLine == arg.hierarchy_section[4]
\* the 0-based channel the root's CHANNELS line labels as the position along axis
PositionChannel(axis) ==
    CHOOSE k \in 0..(Len(RootChannelsLine.labels) - 1) : RootChannelsLine.labels[k + 1] = Pos(axis)
\* a well-formed file whose ROOT declares a position channel for every axis
RootHasPositionChannels ==
    /\ arg.hierarchy_section \in WellFormed
    /\ \A axis \in 0..2 : \E k \in 1..Len(RootChannelsLine.labels) :
          RootChannelsLine.labels[k] = Pos(axis)
\* the value of channel c (0-based) at frame f (1-based) of the file
ChannelValue(f, c) ==
    arg.motion_section.nums[(f - 1) * DeclaredChannels(arg.hierarchy_section) + c + 1]
\* C17: for every successfully loaded skeleton and every frame, the root's
\* resolved position along each axis X, Y, Z is the root offset along that axis
\* plus the value of the channel the root's CHANNELS line labels as the
\* position along that axis.
C17_Claim ==
    (LoadReturned /\ RootHasPositionChannels) =>
        \A f \in ReturnedFrames : \A axis \in 0..2 :
            /\ ReturnedJoint(1).is_root
            /\ ReturnedJoint(1).d_xyz.f[f].st = "value"
            /\ ReturnedJoint(1).d_xyz.f[f].v[axis + 1] =
                   ReturnedJoint(1).offset[axis + 1] + ChannelValue(f, PositionChannel(axis))

\* ------------------------------------------------------------------ scripts: offset estimators
\* Times are whole numbers of a time unit and an envelope is sampled at equal
\* distances; a value read by np.interp is carried times that distance, so
\* that it stays a whole number.  Zero-meaning a window of n values carries
\* them times n as well.  Both factors are positive and the same on the two
\* sides of a comparison of correlations.
TimeStep(times) == times[2] - times[1]
\* np.interp(t, times, env) * TimeStep(times)
InterpScaled(t, times, env) ==
    IF t <= times[1] THEN env[1] * TimeStep(times)
    ELSE IF t >= times[Len(times)] THEN env[Len(env)] * TimeStep(times)
    ELSE LET i == 1 + (t - times[1]) \div TimeStep(times)
         IN  env[i] * (times[i + 1] - t) + env[i + 1] * (t - times[i])
\* np.arange(t0, t1, dt)
ARange(t0, t1, dt) ==
    IF t1 <= t0 THEN <<>> ELSE [i \in 1..((t1 - t0 + dt - 1) \div dt) |-> t0 + (i - 1) * dt]
\* (v - v.mean()) * len(v)
ZeroMeanBy(v, total) == [i \in 1..Len(v) |-> Len(v) * v[i] - total]
ZeroMean(v) == ZeroMeanBy(v, SeqSum(v))
\* np.dot(a, b)
Dot(a, b) == SeqSum([i \in 1..Len(a) |-> a[i] * b[i]])
\* x.std() < 1e-9 for an envelope of whole numbers: all values are equal
NearZeroVariance(env) == \A i \in 1..Len(env) : env[i] = env[1]
\* np.linspace(-max_offset_sec, max_offset_sec, int(2 * max_offset_sec / dt_grid) + 1)
Offsets(max_offset_sec, dt_grid) ==
    LET num == (2 * max_offset_sec) \div dt_grid + 1
    IN  [i \in 1..num |->
            IF num = 1 THEN -max_offset_sec
            ELSE -max_offset_sec + ((i - 1) * 2 * max_offset_sec) \div (num - 1)]

\* the overlap of the shifted audio and the motion for one offset
OverlapStart(audio_times, motion_times, offset) == Max2(audio_times[1] + offset, motion_times[1])
OverlapEnd(audio_times, motion_times, offset) ==
    Min2(audio_times[Len(audio_times)] + offset, motion_times[Len(motion_times)])
ValidOverlap(audio_times, motion_times, offset, dt_grid) ==
    ~(OverlapEnd(audio_times, motion_times, offset)
         <= OverlapStart(audio_times, motion_times, offset) + 2 * dt_grid)
\* a_vals, m_vals after the zero-mean step, and the terms of the score: dot is
\* np.dot(a_vals, m_vals), pa and pm the squared norms, n the window length
WindowScore(a_vals, m_vals) ==
    [dot |-> Dot(a_vals, m_vals), pa |-> Dot(a_vals, a_vals), pm |-> Dot(m_vals, m_vals),
     n |-> Len(a_vals)]
\* the audio envelope read at t + offset in place of t - offset
ResampledAdvanced(audio_env, audio_times, motion_env, motion_times, offset, t) ==
    WindowScore(ZeroMean([i \in 1..Len(t) |->
                             InterpScaled(t[i] + offset, audio_times, audio_env)]),
                ZeroMean([i \in 1..Len(t) |-> InterpScaled(t[i], motion_times, motion_env)]))
\* the two envelopes read at the times t
Resampled(audio_env, audio_times, motion_env, motion_times, offset, t) ==
    WindowScore(ZeroMean([i \in 1..Len(t) |->
                             InterpScaled(t[i] - offset, audio_times, audio_env)]),
                ZeroMean([i \in 1..Len(t) |-> InterpScaled(t[i], motion_times, motion_env)]))
ScoreAt(audio_env, audio_times, motion_env, motion_times, offset, dt_grid) ==
    Resampled(audio_env, audio_times, motion_env, motion_times, offset,
              ARange(OverlapStart(audio_times, motion_times, offset),
                     OverlapEnd(audio_times, motion_times, offset), dt_grid))
\* np.linalg.norm(a_vals) * np.linalg.norm(m_vals) is 0: one of the two
\* zero-meaned windows is constant
ZeroDenom(s) == s.pa = 0 \/ s.pm = 0
\* the square of the correlation dot / (norm * norm), 0 for a constant window
CorrSquared(s) == IF s.dot = 0 THEN Q(0, 1) ELSE Q(s.dot * s.dot, s.pa * s.pm)
\* the correlation of s is below that of r
CorrLess(s, r) ==
    IF s.dot < 0 /\ r.dot >= 0 THEN TRUE
    ELSE IF s.dot >= 0 /\ r.dot < 0 THEN FALSE
    ELSE IF s.dot >= 0 THEN QLt(CorrSquared(s), CorrSquared(r))
    ELSE QLt(CorrSquared(r), CorrSquared(s))
\* score > best_score for score = dot / (norm * norm + 1e-9) in exact
\* arithmetic: the correlation decides, and between equal correlations the
\* 1e-9 lets the larger dot product per squared window length win
ScoreGreater(s, best) ==
    \/ CorrLess(best, s)
    \/ ~CorrLess(s, best) /\ QLt(Q(best.dot, best.n * best.n), Q(s.dot, s.n * s.n))

\* best_offset and best_score after the comparison with the score s of an
\* offset: best is <<>> while best_score is -inf and <<offset, score>>
\* afterwards.  Two scores that are equal in exact arithmetic differ by the
\* rounding of the floating-point sums, so either may be the greater one.
Compared(best, offset, s) ==
    IF best = <<>> THEN {<<offset, s>>}
    ELSE IF ScoreGreater(s, best[2]) THEN {<<offset, s>>}
    ELSE IF ScoreGreater(best[2], s) THEN {best}
    ELSE {best, <<offset, s>>}
\* the first scored offset is kept whatever the later scores are
KeepFirstBest(best, offset, s) ==
    IF ZeroDenom(s) THEN {best} ELSE IF best = <<>> THEN {<<offset, s>>} ELSE {best}
\* if denom <= 1e-9: continue.  The test passes when the zero-meaned constant
\* window is exactly 0; when the rounding of its mean leaves a residue the
\* offset is scored, with a score of about 0.
KeepBest(best, offset, s) ==
    IF ZeroDenom(s) THEN {best} \cup Compared(best, offset, s) ELSE Compared(best, offset, s)
NextBests(bests, offset, s) == UNION {KeepBest(best, offset, s) : best \in bests}
\* the loop over the offsets from offsets[i] on, for each best so far
RECURSIVE BestOffset(_, _, _, _, _, _, _, _)
BestOffset(audio_env, audio_times, motion_env, motion_times, offsets, dt_grid, i, bests) ==
    IF i > Len(offsets) THEN bests
    ELSE IF ~ValidOverlap(audio_times, motion_times, offsets[i], dt_grid)
    THEN BestOffset(audio_env, audio_times, motion_env, motion_times, offsets, dt_grid,
                    i + 1, bests)
    ELSE BestOffset(audio_env, audio_times, motion_env, motion_times, offsets, dt_grid,
                    i + 1,
                    NextBests(bests, offsets[i],
                              ScoreAt(audio_env, audio_times, motion_env, motion_times,
                                      offsets[i], dt_grid)))

\* return best_offset
ReturnedOffset(best) == IF best = <<>> THEN 0 ELSE best[1]
\* the offsets estimate_offset_sec_from_env may return
estimate_offset_sec_from_env(audio_env, audio_times, motion_env, motion_times, max_offset_sec, dt_grid) ==
    IF Len(audio_env) < 4 \/ Len(motion_env) < 4 THEN {0}
    ELSE IF NearZeroVariance(audio_env) \/ NearZeroVariance(motion_env) THEN {0}
    ELSE {ReturnedOffset(best) :
             best \in BestOffset(audio_env, audio_times, motion_env, motion_times,
                                 Offsets(max_offset_sec, dt_grid), dt_grid, 1, {<<>>})}

\* np.correlate(a, v, mode="full") at lag k: the sum of a[n + k] * v[n]
CorrelateAt(a, v, k) ==
    SeqSum([n \in 1..Len(v) |-> IF n + k \in 1..Len(a) THEN a[n + k] * v[n] ELSE 0])
\* offset_sec = -best_lag * dt_grid
OffsetOfLagSameSign(best_lag, dt_grid) == best_lag * dt_grid
OffsetOfLag(best_lag, dt_grid) == -best_lag * dt_grid

\* corr[mask] by lag
CorrelateFull(a, v, lo, hi) == [k \in lo..hi |-> CorrelateAt(a, v, k)]
\* np.argmax(subcorr): a lag with the largest value; values that are equal
\* in exact arithmetic differ by the rounding of the floating-point sums
ArgMaxLag(subcorr) == {k \in DOMAIN subcorr : \A j \in DOMAIN subcorr : subcorr[j] <= subcorr[k]}
Resample(grid, times, env) ==
    ZeroMean([i \in 1..Len(grid) |-> InterpScaled(grid[i], times, env)])
CrossCorrelated(audio_env, audio_times, motion_env, motion_times, max_lag_steps, dt_grid, grid) ==
    IF Len(grid) < 10 THEN {0}
    ELSE {OffsetOfLag(best_lag, dt_grid) :
             best_lag \in ArgMaxLag(CorrelateFull(Resample(grid, audio_times, audio_env),
                                                  Resample(grid, motion_times, motion_env),
                                                  Max2(-(Len(grid) - 1), -max_lag_steps),
                                                  Min2(Len(grid) - 1, max_lag_steps)))}

\* the offsets estimate_offset_audio_to_motion may return; dividing by
\* std + 1e-9 scales both grids by positive factors and leaves the argmax
\* where it is
estimate_offset_audio_to_motion(audio_env, audio_times, motion_env, motion_times, max_offset_sec, dt_grid) ==
    IF Len(audio_env) < 5 \/ Len(motion_env) < 5 THEN {0}
    ELSE IF Min2(audio_times[Len(audio_times)], motion_times[Len(motion_times)])
               <= Max2(audio_times[1], motion_times[1]) + 5 * dt_grid
    THEN {0}
    ELSE CrossCorrelated(audio_env, audio_times, motion_env, motion_times,
                         max_offset_sec \div dt_grid, dt_grid,
                         ARange(Max2(audio_times[1], motion_times[1]),
                                Min2(audio_times[Len(audio_times)],
                                     motion_times[Len(motion_times)]),
                                dt_grid))

\* The two estimators called one after the other on the same envelopes, as
\* build_clip_features_labels and main call them: ret holds what
\* estimate_offset_sec_from_env returned and local what
\* estimate_offset_audio_to_motion returned.  Two families of envelopes: any
\* two short envelopes of zeros and ones that start together, and an audio
\* envelope that is a copy of the motion envelope on time stamps moved by d.
MaxEnvLen == 4
MaxCopyLen == 7
Shifts == (-2)..2
BinaryEnvs(n) == [1..n -> {0, 1}]
TimesFrom(start, step, n) == [i \in 1..n |-> start + (i - 1) * step]
\* max_offset_sec and dt_grid, in time units
SearchGrids == {<<1, 1>>, <<2, 1>>, <<1, 2>>, <<2, 2>>}
EstimatorCall(audio_env, audio_times, motion_env, motion_times, g) ==
    [fn |-> "estimate_offset", audio_env |-> audio_env, audio_times |-> audio_times,
     motion_env |-> motion_env, motion_times |-> motion_times,
     max_offset_sec |-> g[1], dt_grid |-> g[2]]
FreeEnvelopes ==
    UNION {{EstimatorCall(a, TimesFrom(0, step, n), m, TimesFrom(0, step, n), g) :
               a \in BinaryEnvs(n), m \in BinaryEnvs(n)} :
           n \in 3..MaxEnvLen, step \in {1, 2}, g \in SearchGrids}
\* adding d to the audio time stamps gives the motion time stamps
ShiftedCopies ==
    {EstimatorCall(e, TimesFrom(0, step, MaxCopyLen), e, TimesFrom(d, step, MaxCopyLen), g) :
        e \in BinaryEnvs(MaxCopyLen), d \in Shifts, step \in {1, 2},
        g \in SearchGrids}
EstimatorCalls == FreeEnvelopes \cup ShiftedCopies

InitAlign ==
    /\ arg \in EstimatorCalls
    /\ pc = "call"
    /\ C = NoCues
    /\ score = Zeros(0)
    /\ mask_hyst = <<>>
    /\ events_idx = <<>>
    /\ ret = NoRet
    /\ loader = NoLoader
    /\ local = NoLocal

\* build_clip_features_labels: offset_sec = estimate_offset_sec_from_env(...)
CallFromEnv ==
    /\ pc = "call" /\ arg.fn = "estimate_offset"
    /\ \E offset_sec \in estimate_offset_sec_from_env(arg.audio_env, arg.audio_times,
                                                      arg.motion_env, arg.motion_times,
                                                      arg.max_offset_sec, arg.dt_grid) :
          ret' = [exc |-> "none", val |-> offset_sec]
    /\ pc' = "estimate_offset_sec_from_env"
    /\ UNCHANGED <<arg, C, score, mask_hyst, events_idx, loader, local>>
\* main: auto_offset_sec = estimate_offset_audio_to_motion(...)
CallAudioToMotion ==
    /\ pc = "estimate_offset_sec_from_env"
    /\ \E auto_offset_sec \in estimate_offset_audio_to_motion(
                                  arg.audio_env, arg.audio_times, arg.motion_env,
                                  arg.motion_times, arg.max_offset_sec, arg.dt_grid) :
          local' = [exc |-> "none", val |-> auto_offset_sec]
    /\ pc' = "estimate_offset_audio_to_motion"
    /\ UNCHANGED <<arg, C, score, mask_hyst, events_idx, loader, ret>>

NextAlign ==
    \/ CallFromEnv
    \/ CallAudioToMotion

SpecAlign == InitAlign /\ [][NextAlign]_vars


\* ------------------------------------------------------------------ offset estimator properties
FromEnvReturned == arg.fn = "estimate_offset" /\ pc = "estimate_offset_sec_from_env"
GridOffsets ==
    {Offsets(arg.max_offset_sec, arg.dt_grid)[i] :
        i \in 1..Len(Offsets(arg.max_offset_sec, arg.dt_grid))}
ValidAt(offset) == ValidOverlap(arg.audio_times, arg.motion_times, offset, arg.dt_grid)
ScoreOf(offset) ==
    ScoreAt(arg.audio_env, arg.audio_times, arg.motion_env, arg.motion_times, offset,
            arg.dt_grid)
\* an envelope has near-zero variance or fewer than 4 samples, or no grid
\* offset gives an overlap longer than 2 * dt_grid
\* the correlation of best is not below that of any grid offset with a valid
\* overlap (of any such offset with two non-constant windows)
BestOfValid(best) ==
    \A offset \in GridOffsets : ValidAt(offset) => ~CorrLess(best, ScoreOf(offset))
NotBelowScored(best, s) == ZeroDenom(s) \/ ~CorrLess(best, s)
BestOfScored(best) ==
    \A offset \in GridOffsets : ValidAt(offset) => NotBelowScored(best, ScoreOf(offset))
ZeroOffsetCase ==
    \/ Len(arg.audio_env) < 4 \/ Len(arg.motion_env) < 4
    \/ NearZeroVariance(arg.audio_env) \/ NearZeroVariance(arg.motion_env)
    \/ \A offset \in GridOffsets : ~ValidAt(offset)

\* C18 as stated: estimate_offset_sec_from_env returns exactly 0 when an
\* envelope has near-zero variance or fewer than 4 samples or when no grid
\* offset gives an overlap longer than 2 * dt_grid; in every other case it
\* returns a grid point of [-max_offset_sec, max_offset_sec] that attains the
\* maximum normalized correlation over the grid offsets with a valid overlap.
C18_Claim ==
    FromEnvReturned =>
        IF ZeroOffsetCase THEN ret.val = 0
        ELSE /\ ret.val \in GridOffsets
             /\ ValidAt(ret.val)
             /\ BestOfValid(ScoreOf(ret.val))
\* C18, amended: in every other case it returns 0 when each grid offset with
\* a valid overlap has a constant resampled window, or a grid point with a
\* valid overlap whose correlation (0 for a constant window) is not below that
\* of any grid offset with a valid overlap and two non-constant windows.
C18_ZeroOrBestScored ==
    FromEnvReturned =>
        IF ZeroOffsetCase THEN ret.val = 0
        ELSE \/ /\ ret.val = 0
                /\ \A offset \in GridOffsets : ValidAt(offset) => ZeroDenom(ScoreOf(offset))
             \/ /\ ret.val \in GridOffsets
                /\ ValidAt(ret.val)
                /\ BestOfScored(ScoreOf(ret.val))
\* a returned offset other than 0 and other than the first one scored, with a
\* correlation above that of another scored offset
C18_Witness ==
    /\ FromEnvReturned
    /\ ~ZeroOffsetCase
    /\ ret.val > 0
    /\ ~ZeroDenom(ScoreOf(ret.val))
    /\ \A offset \in GridOffsets :
          offset < ret.val =>
              ValidAt(offset) /\ CorrLess(ScoreOf(offset), ScoreOf(ret.val))


\* adding InjectedOffset to the audio time stamps gives the motion time stamps
InjectedOffset == arg.motion_times[1] - arg.audio_times[1]
\* the audio envelope is the motion envelope, moved in time by InjectedOffset
ShiftedCopy ==
    /\ arg.audio_env = arg.motion_env
    /\ Len(arg.audio_times) = Len(arg.motion_times)
    /\ \A i \in 1..Len(arg.audio_times) :
          arg.motion_times[i] = arg.audio_times[i] + InjectedOffset
\* the injected offset is a point of the search grid (so inside the search
\* range), the signals are not constant and the overlap at it is long enough
InjectedOffsetSearched ==
    /\ FromEnvReturned
    /\ ShiftedCopy
    /\ InjectedOffset \in GridOffsets
    /\ ~NearZeroVariance(arg.audio_env)
    /\ ValidAt(InjectedOffset)
WithinOneStep(offset_sec) ==
    /\ offset_sec - InjectedOffset <= arg.dt_grid
    /\ InjectedOffset - offset_sec <= arg.dt_grid

\* C19 as stated: when the audio envelope is an exact time-shifted copy of the
\* motion envelope and adding d to the audio time stamps aligns the two (d on
\* the search grid, non-constant signals, sufficient overlap),
\* estimate_offset_sec_from_env returns an offset within one dt_grid step of d.
C19_Claim == InjectedOffsetSearched => WithinOneStep(ret.val)
\* C19, amended: the same, when in addition the envelope is not constant on
\* the samples np.arange takes from the overlap at d.
C19_RecoversWhenWindowVaries ==
    (InjectedOffsetSearched /\ ~ZeroDenom(ScoreOf(InjectedOffset))) => WithinOneStep(ret.val)
\* a copy moved by a whole grid step or more, and its offset returned
C19_Witness ==
    /\ InjectedOffsetSearched
    /\ ~ZeroDenom(ScoreOf(InjectedOffset))
    /\ InjectedOffset >= arg.dt_grid
    /\ ret.val = InjectedOffset


BothReturned == arg.fn = "estimate_offset" /\ pc = "estimate_offset_audio_to_motion"
\* motion is a copy of audio delayed by d > 0, d inside the search range
MotionDelayed ==
    ShiftedCopy /\ InjectedOffset > 0 /\ InjectedOffset <= arg.max_offset_sec
\* grid = np.arange(t_min, t_max, dt_grid) of estimate_offset_audio_to_motion
\* has at least 10 points
CommonGridLongEnough ==
    Len(ARange(Max2(arg.audio_times[1], arg.motion_times[1]),
               Min2(arg.audio_times[Len(arg.audio_times)],
                    arg.motion_times[Len(arg.motion_times)]), arg.dt_grid)) >= 10
\* each onset (a sample above 0, with the samples before and after it) lies in
\* the time span that the audio and the motion series share
OnsetsInsideOverlap ==
    \A i \in 1..Len(arg.audio_env) :
        arg.audio_env[i] # 0 =>
            /\ i > 1 /\ i < Len(arg.audio_env)
            /\ arg.audio_times[i - 1] >= arg.motion_times[1]
            /\ arg.motion_times[i + 1] <= arg.audio_times[Len(arg.audio_times)]

DataclassInit(defaults, kwargs) ==
    [exc |-> "none",
     val |-> [f \in DOMAIN defaults |-> IF f \in DOMAIN kwargs THEN kwargs[f] ELSE defaults[f]]]

MaxParamT == 5
\* keyword arguments: in-domain values and one out-of-domain value per field
KwargChoices ==
    {[smooth_win |-> 1], [smooth_win |-> -1],
     [smooth_win |-> 1, phase_snap_radius |-> 1],
     [smooth_win |-> 1, phase_snap_radius |-> -1],
     [smooth_win |-> 1, snap_recheck_radius |-> -1],
     [smooth_win |-> 1, nms_separation_s |-> Q(-12, 100)],
     [smooth_win |-> 1, score_threshold |-> Q(3, 2)],
     [smooth_win |-> 1, score_threshold |-> Q(-1, 2)],
     [smooth_win |-> 1, hysteresis_low_fac |-> Q(3, 2)],
     [smooth_win |-> 1, hysteresis_low_fac |-> Q(-1, 2)]}
ParamTrajectories == UNION {[1..t -> YLevels] : t \in 0..MaxParamT}
NoParams == <<>>

InitParams ==
    /\ \E y \in ParamTrajectories, v \in {1, 2}, feet \in {<<None, None>>, <<0, 0>>},
          k \in KwargChoices :
          arg = [positions |-> IntSig(y), fps |-> 8, version |-> v, params |-> NoParams,
                 pelvis_idx |-> 0, left_foot_idx |-> feet[1], right_foot_idx |-> feet[2],
                 kwargs |-> k]
    /\ pc = "construct"
    /\ C = NoCues
    /\ score = Zeros(0)
    /\ mask_hyst = <<>>
    /\ events_idx = <<>>
    /\ ret = NoRet
    /\ loader = NoLoader
    /\ local = NoLocal

\* params = BeatParamsV1(...) or BeatParamsV2(...); the record is then the
\* params argument of extract_beats_v1 / extract_beats_v2
ConstructParams ==
    /\ pc = "construct"
    /\ LET made == DataclassInit(IF arg.version = 1 THEN BeatParamsV1 ELSE BeatParamsV2,
                                 arg.kwargs)
       IN  /\ local' = [exc |-> made.exc]
           /\ arg' = IF made.exc = "none" THEN [arg EXCEPT !.params = made.val] ELSE arg
           /\ pc' = IF made.exc = "none" THEN "call" ELSE "raised"
    /\ UNCHANGED <<C, score, mask_hyst, events_idx, ret, loader>>

NextParams ==
    \/ ConstructParams
    \/ Next

SpecParams == InitParams /\ [][NextParams]_vars

InUnitInterval(q) == QLe(Q(0, 1), q) /\ QLe(q, Q(1, 1))
\* the values the specification calls invalid
InvalidParams(p) ==
    \/ p.smooth_win < 0
    \/ p.phase_snap_radius < 0
    \/ p.snap_recheck_radius < 0
    \/ QLt(p.nms_separation_s, Q(0, 1))
    \/ ~InUnitInterval(p.score_threshold)
    \/ ~InUnitInterval(p.hysteresis_low_fac)
\* the extractor has been entered with the constructed record
ExtractorEntered == "kwargs" \in DOMAIN arg /\ pc \notin {"construct", "raised"}

\* C21 as stated: a BeatParamsV1 / BeatParamsV2 with a negative smooth_win,
\* phase_snap_radius, snap_recheck_radius or nms_separation_s, or with
\* score_threshold or hysteresis_low_fac outside [0, 1], fails at
\* construction: no such record reaches extract_beats_v1 / extract_beats_v2.
C21_Claim == ExtractorEntered => ~InvalidParams(arg.params)


\* ------------------------------------------------------------------ array helpers
\* One call of _local_minima followed by _local_maxima on the same array, or
\* one call of _ma1d.  local holds the minima mask, ret the maxima mask or the
\* smoothed array.
MaxArrayLen == 5
ArrayLevels == {0, 1, 2}
Arrays == UNION {[1..t -> ArrayLevels] : t \in 0..MaxArrayLen}
\* window sizes: below 1, 1, even and odd
Windows == {-1, 0, 1, 2, 3, 4, 5}
ExtremaCalls == {[fn |-> "extrema", x |-> IntSig(s), k |-> 1] : s \in Arrays}
SmoothCalls == {[fn |-> "_ma1d", x |-> IntSig(s), k |-> w] : s \in Arrays, w \in Windows}

InitArrays ==
    /\ arg \in ExtremaCalls \cup SmoothCalls
    /\ pc = "call"
    /\ C = NoCues
    /\ score = Zeros(0)
    /\ mask_hyst = <<>>
    /\ events_idx = <<>>
    /\ ret = NoRet
    /\ loader = NoLoader
    /\ local = NoLocal

CallLocalMinima ==
    /\ pc = "call" /\ arg.fn = "extrema"
    /\ local' = [exc |-> "none", val |-> _local_minima(arg.x)]
    /\ pc' = "_local_minima"
    /\ UNCHANGED <<arg, C, score, mask_hyst, events_idx, loader, ret>>
CallLocalMaxima ==
    /\ pc = "_local_minima"
    /\ ret' = [exc |-> "none", val |-> _local_maxima(arg.x)]
    /\ pc' = "_local_maxima"
    /\ UNCHANGED <<arg, C, score, mask_hyst, events_idx, loader, local>>
CallMa1d ==
    /\ pc = "call" /\ arg.fn = "_ma1d"
    /\ Returns("_ma1d", _ma1d(arg.x, arg.k))

NextArrays ==
    \/ CallLocalMinima
    \/ CallLocalMaxima
    \/ CallMa1d

SpecArrays == InitArrays /\ [][NextArrays]_vars

ExtremaReturned == arg.fn = "extrema" /\ pc = "_local_maxima"
\* a mask of length T, false at index 0 and at index T-1, all-false for T < 3
InteriorMask(m, len) ==
    /\ Len(m) = len
    /\ len >= 1 => (~m[1] /\ ~m[len])
    /\ len < 3 => \A i \in 1..len : ~m[i]

\* C22: for every 1-D input of length T, _local_minima and _local_maxima
\* return masks of length T that are false at index 0 and at index T-1, and
\* all-false when T < 3.
C22_MasksSkipEnds ==
    ExtremaReturned =>
        InteriorMask(local.val, SigLen(arg.x)) /\ InteriorMask(ret.val, SigLen(arg.x))
\* an array whose first and last samples are the smallest and the largest,
\* with both kinds of extrema inside
C22_Witness ==
    /\ ExtremaReturned
    /\ SigLen(arg.x) >= 4
    /\ arg.x.n[1] = 0
    /\ arg.x.n[SigLen(arg.x)] = 2
    /\ \E i \in 1..SigLen(arg.x) : local.val[i]
    /\ \E i \in 1..SigLen(arg.x) : ret.val[i]


\* the indices i..j hold equal values and the run cannot be extended
MaximalRun(x, i, j) ==
    /\ i <= j
    /\ \A t \in i..j : x.n[t] = x.n[i]
    /\ i > 1 => x.n[i - 1] # x.n[i]
    /\ j < SigLen(x) => x.n[j + 1] # x.n[i]
\* no two adjacent marks, and at most one mark in a maximal run of equal values
NoDoubleCount(m, x) ==
    /\ \A i \in 1..(Len(m) - 1) : ~(m[i] /\ m[i + 1])
    /\ \A i \in 1..SigLen(x), j \in 1..SigLen(x) :
          MaximalRun(x, i, j) => Cardinality({t \in i..j : m[t]}) <= 1

\* C24: for every 1-D input, _local_maxima never marks two adjacent indices
\* and marks at most one index of any maximal run of equal consecutive
\* values, the same holds for _local_minima, and no index is marked by both.
C24_PlateausCountedOnce ==
    ExtremaReturned =>
        /\ NoDoubleCount(ret.val, arg.x)
        /\ NoDoubleCount(local.val, arg.x)
        /\ \A i \in 1..SigLen(arg.x) : ~(local.val[i] /\ ret.val[i])
\* a plateau of two or more equal samples above both neighbours, marked once
C24_Witness ==
    /\ ExtremaReturned
    /\ \E i \in 2..(SigLen(arg.x) - 2) :
          /\ arg.x.n[i] = arg.x.n[i + 1]
          /\ arg.x.n[i - 1] < arg.x.n[i]
          /\ arg.x.n[i + 2] < arg.x.n[i]
          /\ ret.val[i]
          /\ ~ret.val[i + 1]


Ma1dReturned == arg.fn = "_ma1d" /\ pc = "_ma1d"
\* C26 as stated: _ma1d returns an array of the same length as its input for
\* every window size k (a value below 1 is treated as 1), and for k = 1 it
\* returns the input values unchanged.
C26_Claim ==
    Ma1dReturned =>
        /\ ret.exc = "none"
        /\ SigLen(ret) = SigLen(arg.x)
        /\ arg.k <= 1 => ret = arg.x


\* ------------------------------------------------------------------ a single spike
\* The score stages of extract_beats_v1 on a fused score that is flat except
\* for one spike: the cue arrays are given (C_decel carries the spike, the
\* other cues and the foot heights are flat) and the call goes on from the
\* fusion: normalisation, NMS, phase snap, return.
\* The signals have up to MaxSpikeT frames: a single spike among 21 or more
\* flat frames lies above the 95th percentile, as one among 1000 does.
MaxSpikeT == 30
\* signal length and spike frame
SpikeCases == {<<len, f>> : len \in 3..MaxSpikeT, f \in 0..(MaxSpikeT - 1)}
Spike(len, f) == IntSig([i \in 1..len |-> IF i = f + 1 THEN 1 ELSE 0])

InitSpike ==
    /\ \E c \in {k \in SpikeCases : k[2] < k[1]}, feet \in {<<None, None>>, <<0, 0>>} :
          /\ arg = [positions |-> Zeros(c[1]), fps |-> 30, version |-> 1,
                    params |-> BeatParamsV1, pelvis_idx |-> None,
                    left_foot_idx |-> feet[1], right_foot_idx |-> feet[2], spike |-> c[2]]
          /\ C = CueArrays(Zeros(c[1]), Spike(c[1], c[2]), Zeros(c[1]), Zeros(c[1]),
                           Zeros(c[1]), Zeros(0), Zeros(0))
    /\ pc = "cues"
    /\ score = Zeros(0)
    /\ mask_hyst = <<>>
    /\ events_idx = <<>>
    /\ ret = NoRet
    /\ loader = NoLoader
    /\ local = NoLocal

NextSpike ==
    \/ FuseScore
    \/ Nms
    \/ PhaseSnap
    \/ SkipSnap
    \/ Return

SpecSpike == InitSpike /\ [][NextSpike]_vars

\* the longest signal, with the spike one tenth of its length from the start
\* (as frame 100 of 1000 frames), has gone through the stages
SpikeReturned ==
    /\ "spike" \in DOMAIN arg
    /\ Returned
    /\ T = MaxSpikeT
    /\ arg.spike = MaxSpikeT \div 10
\* C23 as stated: a fused score that is flat except for one sharp spike at
\* frame 100 of a 1000-frame signal (fps = 30), taken through _robust_norm,
\* _nms_basic and the phase snap, yields exactly one event, and that event
\* lies within phase_snap_radius frames of frame 100.
C23_Claim ==
    SpikeReturned =>
        /\ Len(ret.val.events_idx) = 1
        /\ Abs(ret.val.events_idx[1] - arg.spike) <= arg.params.phase_snap_radius


\* ------------------------------------------------------------------ phase snap properties
\* a foot index the snap may use: the foot with the higher foot-contact cue at
\* e when that index is valid, and the other foot when only that one is valid
SnapFeet(e) ==
    LET use_left == QLe(At(C.C_rfoot, e + 1), At(C.C_lfoot, e + 1))
        chosen   == IF use_left THEN arg.left_foot_idx ELSE arg.right_foot_idx
        other    == IF use_left THEN arg.right_foot_idx ELSE arg.left_foot_idx
    IN  IF _valid_idx(chosen, 1) THEN {chosen} ELSE {other}
SnapFrames(e) ==
    Max2(0, e - arg.params.phase_snap_radius)..
        (Min2(T, e + arg.params.phase_snap_radius + 1) - 1)
\* the frames of the window that are local minima of the foot's height (every
\* joint of the model moves along arg.positions)
WindowMinima(e) == {c \in SnapFrames(e) : _local_minima(arg.positions)[c + 1]}
AbsJerk == AbsSig(_grad(_grad(_grad(arg.positions, arg.fps), arg.fps), arg.fps))
\* s is what the snap makes of e
SnappedFrom(s, e) ==
    /\ s \in SnapFrames(e)
    /\ \A fidx \in SnapFeet(e) : _valid_idx(fidx, 1)
    /\ IF WindowMinima(e) # {}
       THEN s \in WindowMinima(e) /\ \A c \in WindowMinima(e) : Abs(s - e) <= Abs(c - e)
       ELSE \A c \in SnapFrames(e) : AbsJerk.n[c + 1] <= AbsJerk.n[s + 1]

\* C25 as stated: in the phase snap each event e is replaced by a frame within
\* phase_snap_radius frames of e and inside [0,T): the local minimum of the
\* chosen foot's height nearest to e in that window if the window holds one,
\* otherwise the frame of maximum absolute jerk in the window; the chosen foot
\* is the one with the higher foot-contact cue at e, and whenever at least one
\* foot index is valid the snap uses a valid foot.
C25_Claim ==
    [][PhaseSnap =>
          /\ \A j \in 1..Len(events_idx) :
                \E k \in 1..Len(events_idx') : SnappedFrom(events_idx'[k], events_idx[j])
          /\ \A k \in 1..Len(events_idx') :
                \E j \in 1..Len(events_idx) : SnappedFrom(events_idx'[k], events_idx[j])]_vars


\* ------------------------------------------------------------------ scripts: feature columns
\* The dictionary `out` of one extractor call, and the per-frame feature
\* matrix stacked from it, as the sequence of its six columns: by
\* build_clip_features_labels (training, always v2) or by the main of
\* beat_refiner_apply (v1 or v2).  ret holds out, local the matrix.
MaxFeatT == 1
FeatSignals == UNION {{IntSig(s) : s \in [1..t -> {0, 1}]} : t \in 1..MaxFeatT}
ExtractorOut(version, sc, de, pe, fo, ac, re) ==
    IF version = 1
    THEN [beat_score |-> sc, candidate_mask |-> <<>>, events_idx |-> <<>>,
          C_decel |-> de, C_pelvis |-> pe, C_foot |-> fo]
    ELSE [beat_score |-> sc, candidate_mask |-> <<>>, events_idx |-> <<>>,
          C_decel |-> de, C_pelvis |-> pe, C_foot |-> fo, C_accel |-> ac, C_reversal |-> re]

InitFeatures ==
    /\ \E v \in {1, 2}, sc, de, pe, fo, ac, re \in FeatSignals :
          /\ SigLen(de) = SigLen(sc) /\ SigLen(pe) = SigLen(sc) /\ SigLen(fo) = SigLen(sc)
          /\ SigLen(ac) = SigLen(sc) /\ SigLen(re) = SigLen(sc)
          /\ arg = [fn |-> "features", version |-> v]
          /\ ret = [exc |-> "none", val |-> ExtractorOut(v, sc, de, pe, fo, ac, re)]
    /\ pc = "returned"
    /\ C = NoCues
    /\ score = Zeros(0)
    /\ mask_hyst = <<>>
    /\ events_idx = <<>>
    /\ loader = NoLoader
    /\ local = NoLocal

\* out.get(key, np.zeros_like(score))
GetOrZeros(out, key) == IF key \in DOMAIN out THEN out[key] ELSE Zeros(SigLen(out.beat_score))
\* X = np.stack([score, C_decel, C_pelvis, C_foot, C_accel, C_rev], axis=1)
TrainingColumns(out) ==
    <<out.beat_score, out.C_decel, out.C_pelvis, out.C_foot, out.C_accel, out.C_reversal>>
\* X_base = np.stack([score, C_foot, C_decel, C_pelvis, C_accel, C_rev], axis=1)
ApplyColumns(out) ==
    <<out.beat_score, out.C_foot, out.C_decel, out.C_pelvis,
      GetOrZeros(out, "C_accel"), GetOrZeros(out, "C_reversal")>>

StackTraining ==
    /\ pc = "returned" /\ arg.fn = "features" /\ arg.version = 2
    /\ local' = [exc |-> "none", val |-> TrainingColumns(ret.val)]
    /\ pc' = "build_clip_features_labels"
    /\ UNCHANGED <<arg, C, score, mask_hyst, events_idx, loader, ret>>
StackApply ==
    /\ pc = "returned" /\ arg.fn = "features"
    /\ local' = [exc |-> "none", val |-> ApplyColumns(ret.val)]
    /\ pc' = "beat_refiner_apply"
    /\ UNCHANGED <<arg, C, score, mask_hyst, events_idx, loader, ret>>

NextFeatures ==
    \/ StackTraining
    \/ StackApply

SpecFeatures == InitFeatures /\ [][NextFeatures]_vars

\* C27 as stated: the six per-frame feature columns are in the same order when
\* the training dataset is built and when the trained model is applied to a
\* clip: for every column position i, the matrix of beat_refiner_apply holds in
\* column i the signal that the matrix of build_clip_features_labels holds there.
C27_Claim ==
    (arg.fn = "features" /\ pc = "beat_refiner_apply" /\ arg.version = 2) =>
        \A i \in 1..6 : local.val[i] = TrainingColumns(ret.val)[i]

\* ------------------------------------------------------------------ scripts/beat_refiner_apply.py
\* the subdivision of the tempo-refined ML events in main
\* order kept, repeats after the first dropped
KeepFirsts(s) ==
    LET firsts == {i \in 1..Len(s) : \A j \in 1..(i - 1) : s[j] # s[i]}
        idx == SetToSortedSeq(firsts)
    IN  [k \in 1..Len(idx) |-> s[idx[k]]]
\* the frames appended for the interval a..b: the factor - 1 inner points, then b
IntervalPoints(a, b, factor) ==
    IF b <= a THEN <<>>
    ELSE [k \in 1..factor |->
            IF k = factor THEN b ELSE RoundHalfEven(a * factor + (b - a) * k, factor)]
RECURSIVE SubdividedFrom(_, _, _)
SubdividedFrom(ev, i, factor) ==
    IF i >= Len(ev) THEN <<>>
    ELSE IntervalPoints(ev[i], ev[i + 1], factor) \o SubdividedFrom(ev, i + 1, factor)
subdivide_events_uniform(events, factor0, nT) ==
    LET ev == _as_int_sorted_unique(events)
        factor == Max2(1, factor0)
    IN  IF Len(ev) < 2 \/ factor = 1
        THEN SelectSeq(ev, LAMBDA e : e >= 0 /\ e < nT)
        ELSE LET out == <<ev[1]>> \o SubdividedFrom(ev, 1, factor)
             IN  KeepFirsts([k \in 1..Len(out) |-> Max2(0, Min2(nT - 1, out[k]))])

MaxSubT == 6
MaxFactor == 3
SubdivideCalls ==
    {[fn |-> "main", T |-> MaxSubT, events_ml |-> ev, subdivide |-> f, target_beats |-> tb] :
        ev \in GridEvents(MaxSubT), f \in 0..MaxFactor, tb \in {None, 0, 2 * MaxSubT}}

\* main, just after refine_events_with_tempo returned the ML events
InitSubdivide ==
    /\ arg \in SubdivideCalls
    /\ pc = "refined"
    /\ C = NoCues
    /\ score = Zeros(0)
    /\ mask_hyst = <<>>
    /\ events_idx = arg.events_ml
    /\ ret = NoRet
    /\ loader = NoLoader
    /\ local = NoLocal

effective_subdiv(subdivide, target_beats, size) ==
    IF target_beats # None /\ target_beats > 0 /\ size >= 2
    THEN Max2(1, RoundHalfEven(target_beats, size))
    ELSE subdivide

SubdivideEffective ==
    /\ pc = "refined" /\ arg.fn = "main"
    /\ LET f == effective_subdiv(arg.subdivide, arg.target_beats, Len(events_idx))
       IN  events_idx' = IF f > 1 /\ Len(events_idx) >= 2
                         THEN subdivide_events_uniform(events_idx, f, arg.T)
                         ELSE events_idx
    /\ pc' = "subdivided"
    /\ UNCHANGED <<arg, C, score, mask_hyst, ret, loader, local>>
SubdivideAgain ==
    /\ pc = "subdivided" /\ arg.fn = "main"
    /\ events_idx' = IF arg.subdivide > 1 /\ Len(events_idx) >= 2
                     THEN subdivide_events_uniform(events_idx, arg.subdivide, arg.T)
                     ELSE events_idx
    /\ pc' = "save"
    /\ UNCHANGED <<arg, C, score, mask_hyst, ret, loader, local>>
SaveEvents ==
    /\ pc = "save" /\ arg.fn = "main"
    /\ ret' = [exc |-> "none", val |-> events_idx]
    /\ pc' = "saved"
    /\ UNCHANGED <<arg, C, score, mask_hyst, events_idx, loader, local>>

NextSubdivide ==
    \/ SubdivideEffective
    \/ SubdivideAgain
    \/ SaveEvents

SpecSubdivide == InitSubdivide /\ [][NextSubdivide]_vars

\* C28 as stated: with --subdivide f > 1 and no --target-beats, the ML events
\* that main saves are the tempo-refined ML events after exactly one
\* application of subdivide_events_uniform with factor f.
C28_Claim ==
    (arg.fn = "main" /\ pc = "saved" /\ arg.subdivide > 1 /\ arg.target_beats = None) =>
        ret.val = subdivide_events_uniform(arg.events_ml, arg.subdivide, arg.T)

\* ------------------------------------------------------------------ ml_helpers.py: hybrid events
\* probs_to_events: the first maximum of every maximal run of frames whose
\* probability is at least thr (0-based frames, ascending)
AboveThr(prob, thr) == [i \in 1..SigLen(prob) |-> QLe(thr, At(prob, i))]
RunStarts(mask) == {i \in 1..Len(mask) : mask[i] /\ (i = 1 \/ ~mask[i - 1])}
RunEnd(mask, s) == CHOOSE e \in s..Len(mask) : (\A j \in s..e : mask[j]) /\ (e = Len(mask) \/ ~mask[e + 1])
probs_to_events(prob, thr) ==
    LET mask == AboveThr(prob, thr)
    IN  SetToSortedSeq({ArgMaxIn(prob.n, s, RunEnd(mask, s)) - 1 : s \in RunStarts(mask)})

\* step 1 of combine_rule_and_ml_events: every rule anchor moves to the first
\* maximum of prob in its window unless that maximum is below thr_ml
SnapRadius(fps, snap_radius_s) == Max2(0, RoundHalfEven(snap_radius_s[1] * fps, snap_radius_s[2]))
SnapToPeak(e, prob, snap_r, thr_ml) ==
    LET lo == Max2(0, e - snap_r)
        hi == Min2(SigLen(prob), e + snap_r + 1)
        best == ArgMaxIn(prob.n, lo + 1, hi) - 1
    IN  IF QLt(At(prob, best + 1), thr_ml) THEN e ELSE best
SnappedAnchors(events_rule, prob, snap_r, thr_ml) ==
    LET ev == _as_int_sorted_unique(events_rule)
        windowed == {i \in 1..Len(ev) : Min2(SigLen(prob), ev[i] + snap_r + 1) > Max2(0, ev[i] - snap_r)}
    IN  SetToSortedSeq({SnapToPeak(ev[i], prob, snap_r, thr_ml) : i \in windowed})
\* all_e: the snapped anchors merged with the ML events
MergedCandidates(events_rule, prob, fps, snap_radius_s, thr_ml) ==
    SetToSortedSeq(SeqToSet(SnappedAnchors(events_rule, prob, SnapRadius(fps, snap_radius_s), thr_ml))
                   \cup SeqToSet(probs_to_events(prob, thr_ml)))
MinSep(fps, min_sep_s) == Max2(1, RoundHalfEven(min_sep_s[1] * fps, min_sep_s[2]))
\* step 3: the sweep over all_e[j..] that builds kept
RECURSIVE KeepLoop(_, _, _, _, _)
KeepLoop(all_e, j, prob, min_sep, kept) ==
    IF j > Len(all_e) THEN kept
    ELSE LET e == all_e[j]
             last == kept[Len(kept)]
         IN  IF kept = <<>> THEN KeepLoop(all_e, j + 1, prob, min_sep, <<e>>)
             ELSE IF e - last < min_sep
             THEN KeepLoop(all_e, j + 1, prob, min_sep,
                           IF prob.n[e + 1] > prob.n[last + 1]
                           THEN [kept EXCEPT ![Len(kept)] = e] ELSE kept)
             ELSE KeepLoop(all_e, j + 1, prob, min_sep, Append(kept, e))
\* the merge without the separation sweep
CombineAllCandidates(events_rule, prob, fps, snap_radius_s, thr_ml, min_sep_s) ==
    IF SigLen(prob) = 0 THEN <<>>
    ELSE MergedCandidates(events_rule, prob, fps, snap_radius_s, thr_ml)
\* combine_rule_and_ml_events, for rule events inside [0, T)
combine_rule_and_ml_events(events_rule, prob, fps, snap_radius_s, thr_ml, min_sep_s) ==
    IF SigLen(prob) = 0 THEN <<>>
    ELSE _as_int_sorted_unique(
            KeepLoop(MergedCandidates(events_rule, prob, fps, snap_radius_s, thr_ml), 1,
                     prob, MinSep(fps, min_sep_s), <<>>))

MaxProbT == 4
\* probabilities 0, 1/2 and 1
Probs(t) == {[exc |-> "none", n |-> s, d |-> 2] : s \in [1..t -> 0..2]}
CombineCalls ==
    {[fn |-> "combine_rule_and_ml_events", events_rule |-> c[1], prob |-> c[2], fps |-> 4,
      snap_radius_s |-> r, thr_ml |-> thr, min_sep_s |-> m] :
        c \in UNION {GridEvents(t) \X Probs(t) : t \in 0..MaxProbT},
        r \in {Q(0, 1), Q(1, 4)}, thr \in {Q(1, 2), Q(1, 1)},
        m \in {Q(0, 1), Q(1, 2), Q(3, 4)}}

InitCombine ==
    /\ arg \in CombineCalls
    /\ pc = "call"
    /\ C = NoCues
    /\ score = Zeros(0)
    /\ mask_hyst = <<>>
    /\ events_idx = <<>>
    /\ ret = NoRet
    /\ loader = NoLoader
    /\ local = NoLocal

CallCombine ==
    /\ pc = "call" /\ arg.fn = "combine_rule_and_ml_events"
    /\ Returns("combine_rule_and_ml_events",
               [exc |-> "none",
                val |-> combine_rule_and_ml_events(arg.events_rule, arg.prob, arg.fps,
                                                   arg.snap_radius_s, arg.thr_ml, arg.min_sep_s)])

SpecCombine == InitCombine /\ [][CallCombine]_vars

CombineReturned == pc = "combine_rule_and_ml_events" /\ SigLen(arg.prob) >= 1
\* strictly increasing, consecutive events at least min_sep frames apart
Separated(ev, min_sep) == \A i \in 1..(Len(ev) - 1) : ev[i + 1] - ev[i] >= min_sep
\* no candidate is returned while a candidate closer than min_sep has a
\* strictly higher prob
StrongerKept(ev, cand, prob, min_sep) ==
    \A a, b \in SeqToSet(cand) :
        (Abs(a - b) < min_sep /\ prob.n[a + 1] > prob.n[b + 1]) => b \notin SeqToSet(ev)
\* every returned event is a candidate, and every candidate that is not
\* returned has a candidate closer than min_sep that it lost to: a later one
\* with strictly higher prob or an earlier one with prob at least as high
DroppedForNeighbour(ev, cand, prob, min_sep) ==
    /\ SeqToSet(ev) \subseteq SeqToSet(cand)
    /\ \A c \in SeqToSet(cand) \ SeqToSet(ev) :
          \E o \in SeqToSet(cand) :
              /\ o # c /\ Abs(o - c) < min_sep
              /\ IF o > c THEN prob.n[o + 1] > prob.n[c + 1] ELSE prob.n[o + 1] >= prob.n[c + 1]

\* C29 as stated: the events returned by combine_rule_and_ml_events are
\* strictly increasing and at least max(1, round(min_sep_s * fps)) frames
\* apart, and of two merged candidates closer than that the one with the
\* strictly higher prob is the one kept (the other one is never returned).
C29_Claim ==
    CombineReturned =>
        /\ Separated(ret.val, MinSep(arg.fps, arg.min_sep_s))
        /\ StrongerKept(ret.val,
                        MergedCandidates(arg.events_rule, arg.prob, arg.fps, arg.snap_radius_s, arg.thr_ml),
                        arg.prob, MinSep(arg.fps, arg.min_sep_s))

\* C29, amended: the returned events are strictly increasing and at least
\* max(1, round(min_sep_s * fps)) frames apart; each is a merged candidate, and
\* a candidate is left out only when another candidate closer than that has a
\* strictly higher prob (if later) or a prob at least as high (if earlier).
C29_SeparatedSweep ==
    CombineReturned =>
        /\ Separated(ret.val, MinSep(arg.fps, arg.min_sep_s))
        /\ DroppedForNeighbour(ret.val,
                               MergedCandidates(arg.events_rule, arg.prob, arg.fps, arg.snap_radius_s, arg.thr_ml),
                               arg.prob, MinSep(arg.fps, arg.min_sep_s))
\* a call whose sweep replaces a kept event by a later, stronger candidate and
\* still returns more than one event
C29_Witness ==
    /\ CombineReturned
    /\ Len(ret.val) >= 2
    /\ \E c \in SeqToSet(MergedCandidates(arg.events_rule, arg.prob, arg.fps, arg.snap_radius_s, arg.thr_ml)) \ SeqToSet(ret.val) :
          \E o \in SeqToSet(ret.val) :
              o > c /\ o - c < MinSep(arg.fps, arg.min_sep_s) /\ arg.prob.n[o + 1] > arg.prob.n[c + 1]

\* C30 as stated: the minimum event separation survives phase snap: any two
\* distinct events returned by extract_beats_v1 are more than
\* win = max(1, round(nms_sep * fps)) frames apart, nms_sep being the
\* separation the call used for NMS.
C30_Claim ==
    (pc = "returned" /\ arg.version = 1 /\ ~Degenerate(T, arg.fps)) =>
        \A i, j \in 1..Len(ret.val.events_idx) :
            i # j => Abs(ret.val.events_idx[i] - ret.val.events_idx[j])
                        > NmsWin(arg.fps, NmsSep(arg.params, score, arg.fps))
====
